---------------------------- MODULE Spec2Model ----------------------------
(***************************************************************************)
(* RevitMCP: the external event bridge of external_event_handler.py.       *)
(*                                                                         *)
(* Client threads call trigger_event and get_event_status; the host (the   *)
(* Revit UI thread) calls GeneralPurposeEventHandler.Execute after         *)
(* ExternalEvent.Raise().  handler.lock is a threading.Lock: a `with`      *)
(* block is entered only when the lock is free and holds it until the      *)
(* block is left, by falling off its end or by an exception.               *)
(***************************************************************************)
EXTENDS Integers, Sequences, FiniteSets, TLC

(***************************************************************************)
(* Bounds of the model.                                                    *)
(***************************************************************************)
NumClients == 2
MaxRequests == 2
MaxTicks == 1
(* The seconds one Tick of the clock adds.                                 *)
TickSeconds == 600

(***************************************************************************)
(* Program constants.                                                      *)
(***************************************************************************)
(* _cleanup_old_results(max_age_seconds=600)                               *)
max_age_seconds == 600

Clients == 1..NumClients
Host == 0
Free == -1

(* Operation names a caller can pass: the one registered operation, a     *)
(* name dispatch_operation does not know, and the empty name.              *)
PlaceView == "place_view_on_sheet"
OtherOp == "other_operation"
EmptyName == ""
Operations == {PlaceView, OtherOp, EmptyName}

(* params is a dict of the payload, or None when the payload has none.    *)
ParamsDict == "params"
ParamsNone == "None"
Params == {ParamsDict, ParamsNone}

(* The calls of trigger_event the model makes: each way dispatch_operation *)
(* can go, and the empty operation name.                                   *)
TriggerInputs ==
    {<<PlaceView, ParamsDict>>, <<PlaceView, ParamsNone>>,
     <<OtherOp, ParamsDict>>, <<EmptyName, ParamsDict>>}

(* Ids no trigger_event call ever allocates (a uuid4 is unguessable).      *)
UnknownIds == {-1}
NoId == 0

NoRequest == [id |-> NoId, operation |-> EmptyName, params |-> ParamsNone, timestamp |-> 0]
NoReturn == [call |-> "none", id |-> NoId, value |-> [status |-> "none"]]

VARIABLES
    request_queue,  \* handler.request_queue: list of request dicts
    results,        \* handler.results: dict event_id -> result dict
    lock,           \* handler.lock: Free, Host or the client holding it
    raised,         \* the ExternalEvent is pending (Raise called, Execute not yet)
    hpc,            \* where the host thread is inside Execute
    cur,            \* Execute's local `request`
    docOpen,        \* uiapp.ActiveUIDocument is not None
    now,            \* time.time()
    nextId,         \* the next fresh uuid
    cpc,            \* where each client thread is
    creq,           \* trigger_event's local `request`
    carg,           \* get_event_status's argument `event_id`
    ret,            \* what each client's last call returned
    enqLog,         \* history: the requests in the order they were appended
    popLog,         \* history: the ids in the order Execute popped them
    execLog,        \* history: the dispatch_operation calls, in order
    drainNo,        \* history: the number of Execute calls so far
    escaped,        \* history: the Execute calls an exception propagated out of
    returned        \* history: the ids trigger_event has returned

vars == <<request_queue, results, lock, raised, hpc, cur, docOpen, now, nextId,
          cpc, creq, carg, ret, enqLog, popLog, execLog, drainNo, escaped, returned>>

bridgeVars == <<request_queue, results, lock, raised, hpc, cur>>
hostVars == <<hpc, cur>>
clientVars == <<cpc, creq, carg, ret>>
histVars == <<enqLog, popLog, execLog, drainNo, escaped, returned>>

(***************************************************************************)
(* Helpers.                                                                *)
(***************************************************************************)
Range(s) == {s[i] : i \in DOMAIN s}

QueueIds(q) == {q[i].id : i \in DOMAIN q}

(* dict[key] = value: adds the key or overwrites its value.                *)
DictSet(d, k, v) == [x \in (DOMAIN d) \cup {k} |-> IF x = k THEN v ELSE d[x]]

IsTerminal(res) == res.status \in {"completed", "failed"}

(* History: how the latest dispatch_operation call ended.                  *)
LogOutcome(log, outcome, value) ==
    [log EXCEPT ![Len(log)] = [@ EXCEPT !.outcome = outcome, !.value = value]]

(***************************************************************************)
(* __init__ and the module's load: an empty queue, an empty store.         *)
(***************************************************************************)
Init ==
    /\ request_queue = <<>>
    /\ results = <<>>
    /\ lock = Free
    /\ raised = FALSE
    /\ hpc = "idle"
    /\ cur = NoRequest
    /\ docOpen \in BOOLEAN
    /\ now = 0
    /\ nextId = 1
    /\ cpc = [t \in Clients |-> "idle"]
    /\ creq = [t \in Clients |-> NoRequest]
    /\ carg = [t \in Clients |-> NoId]
    /\ ret = [t \in Clients |-> NoReturn]
    /\ enqLog = <<>>
    /\ popLog = <<>>
    /\ execLog = <<>>
    /\ drainNo = 0
    /\ escaped = {}
    /\ returned = {}

(***************************************************************************)
(* trigger_event(operation, params)                                        *)
(***************************************************************************)
(* Lines 92-102: the handler exists; a fresh id and the request dict.      *)
TriggerBuild(t, operation, params) ==
    /\ cpc[t] = "idle"
    /\ nextId <= MaxRequests
    /\ creq' = [creq EXCEPT ![t] = [id |-> nextId, operation |-> operation,
                                    params |-> params, timestamp |-> now]]
    /\ nextId' = nextId + 1
    /\ cpc' = [cpc EXCEPT ![t] = "t_append"]
    /\ ret' = [ret EXCEPT ![t] = NoReturn]
    /\ UNCHANGED <<bridgeVars, docOpen, now, carg, histVars>>

(* Mutant: the append outside the `with handler.lock` block.               *)
TriggerAppend_Unlocked(t) ==
    /\ cpc[t] = "t_append"
    /\ request_queue' = Append(request_queue, creq[t])
    /\ enqLog' = Append(enqLog, creq[t])
    /\ cpc' = [cpc EXCEPT ![t] = "t_seed"]
    /\ UNCHANGED <<results, lock, raised, hostVars, docOpen, now, nextId, creq, carg,
                   ret, popLog, execLog, drainNo, escaped, returned>>

(* Lines 104-105: enter `with handler.lock`, append the request.           *)
TriggerAppend(t) ==
    /\ cpc[t] = "t_append"
    /\ lock = Free
    /\ lock' = t
    /\ request_queue' = Append(request_queue, creq[t])
    /\ enqLog' = Append(enqLog, creq[t])
    /\ cpc' = [cpc EXCEPT ![t] = "t_seed"]
    /\ UNCHANGED <<results, raised, hostVars, docOpen, now, nextId, creq, carg, ret,
                   popLog, execLog, drainNo, escaped, returned>>

(* Mutant: no result is seeded.                                            *)
TriggerSeed_NoSeed(t) ==
    /\ cpc[t] = "t_seed"
    /\ lock' = Free
    /\ cpc' = [cpc EXCEPT ![t] = "t_raise"]
    /\ UNCHANGED <<request_queue, results, raised, hostVars, docOpen, now, nextId, creq,
                   carg, ret, histVars>>

(* Line 106: seed the 'processing' result, leave the `with` block.         *)
TriggerSeed(t) ==
    /\ cpc[t] = "t_seed"
    /\ results' = DictSet(results, creq[t].id, [status |-> "processing"])
    /\ lock' = Free
    /\ cpc' = [cpc EXCEPT ![t] = "t_raise"]
    /\ UNCHANGED <<request_queue, raised, hostVars, docOpen, now, nextId, creq, carg,
                   ret, histVars>>

(* Lines 108-110: external_event.Raise(), return the id.                   *)
TriggerRaise(t) ==
    /\ cpc[t] = "t_raise"
    /\ raised' = TRUE
    /\ ret' = [ret EXCEPT ![t] = [call |-> "trigger", id |-> creq[t].id,
                                  value |-> [status |-> "processing"]]]
    /\ returned' = returned \cup {creq[t].id}
    /\ creq' = [creq EXCEPT ![t] = NoRequest]
    /\ cpc' = [cpc EXCEPT ![t] = "idle"]
    /\ UNCHANGED <<request_queue, results, lock, hostVars, docOpen, now, nextId, carg,
                   enqLog, popLog, execLog, drainNo, escaped>>

(***************************************************************************)
(* get_event_status(event_id) and _cleanup_old_results()                   *)
(***************************************************************************)
(* Lines 136-139: the dict comprehension fresh_results.                    *)
FreshResults(res, queue, current_time) ==
    LET keep(eid) ==
            \/ res[eid].status = "processing"
            \/ IF queue # <<>>
               THEN current_time - queue[1].timestamp < max_age_seconds
               ELSE FALSE
        kept == {eid \in DOMAIN res : keep(eid)}
    IN  [eid \in kept |-> res[eid]]

(* Mutant: the survivors are stored, and chosen by age alone.              *)
CleanupOldResults_ByAgeAlone(res, queue, current_time) ==
    LET young == IF queue # <<>>
                 THEN current_time - queue[1].timestamp < max_age_seconds
                 ELSE FALSE
    IN  [eid \in {e \in DOMAIN res : young} |-> res[eid]]

(* Lines 132-142: handler.results after the `with` block.  fresh_results   *)
(* is a local that is never assigned to handler.results.                   *)
CleanupOldResults(res, queue, current_time) ==
    LET fresh_results == FreshResults(res, queue, current_time)
    IN  res

(* Mutant: the default of the lookup is the seeded result.                 *)
ResultsGet_DefaultProcessing(res, event_id) ==
    IF event_id \in DOMAIN res THEN res[event_id] ELSE [status |-> "processing"]

(* Line 124: handler.results.get(event_id, {'status': 'not_found'}).       *)
ResultsGet(res, event_id) ==
    IF event_id \in DOMAIN res THEN res[event_id] ELSE [status |-> "not_found"]

(* Lines 112-118: a caller polls an id it was given, or one it made up.    *)
StatusCall(t, event_id) ==
    /\ cpc[t] = "idle"
    /\ event_id \in returned \cup UnknownIds
    /\ carg' = [carg EXCEPT ![t] = event_id]
    /\ cpc' = [cpc EXCEPT ![t] = "s_clean"]
    /\ ret' = [ret EXCEPT ![t] = NoReturn]
    /\ UNCHANGED <<bridgeVars, docOpen, now, nextId, creq, histVars>>

(* Line 121: _cleanup_old_results(), one `with handler.lock` block.        *)
StatusCleanup(t) ==
    /\ cpc[t] = "s_clean"
    /\ lock = Free
    /\ results' = CleanupOldResults(results, request_queue, now)
    /\ cpc' = [cpc EXCEPT ![t] = "s_read"]
    /\ UNCHANGED <<request_queue, lock, raised, hostVars, docOpen, now, nextId, creq,
                   carg, ret, histVars>>

(* Lines 123-124: read the result under the lock and return it.            *)
StatusRead(t) ==
    /\ cpc[t] = "s_read"
    /\ lock = Free
    /\ ret' = [ret EXCEPT ![t] = [call |-> "status", id |-> carg[t],
                                  value |-> ResultsGet(results, carg[t])]]
    /\ carg' = [carg EXCEPT ![t] = NoId]
    /\ cpc' = [cpc EXCEPT ![t] = "idle"]
    /\ UNCHANGED <<bridgeVars, docOpen, now, nextId, creq, histVars>>

(***************************************************************************)
(* GeneralPurposeEventHandler.Execute(uiapp), on the host thread           *)
(***************************************************************************)
(* Mutant: Execute does not wait for the lock.                             *)
ExecuteEnter_NoLock ==
    /\ raised
    /\ raised' = FALSE
    /\ lock' = Host
    /\ hpc' = "check"
    /\ drainNo' = drainNo + 1
    /\ UNCHANGED <<request_queue, results, cur, docOpen, now, nextId, clientVars,
                   enqLog, popLog, execLog, escaped, returned>>

(* Execute is called for a pending event, whether or not an earlier call   *)
(* has finished; line 31 waits for the lock and takes it.                  *)
ExecuteEnter ==
    /\ raised
    /\ lock = Free
    /\ raised' = FALSE
    /\ lock' = Host
    /\ hpc' = "check"
    /\ drainNo' = drainNo + 1
    /\ UNCHANGED <<request_queue, results, cur, docOpen, now, nextId, clientVars,
                   enqLog, popLog, execLog, escaped, returned>>

(* Lines 32-33: nothing queued, return (the `with` releases the lock).     *)
ExecuteEmptyReturn ==
    /\ hpc = "check"
    /\ request_queue = <<>>
    /\ lock' = Free
    /\ hpc' = "idle"
    /\ UNCHANGED <<request_queue, results, raised, cur, docOpen, now, nextId,
                   clientVars, histVars>>

(* Line 32 passes: go on to the while loop of line 36.                     *)
ExecuteCheckPass ==
    /\ hpc = "check"
    /\ request_queue # <<>>
    /\ hpc' = "loop"
    /\ UNCHANGED <<request_queue, results, lock, raised, cur, docOpen, now, nextId,
                   clientVars, histVars>>

(* Lines 36-40: the queue is not empty, pop its first request.             *)
ExecutePop ==
    /\ hpc = "loop"
    /\ request_queue # <<>>
    /\ cur' = Head(request_queue)
    /\ request_queue' = Tail(request_queue)
    /\ popLog' = Append(popLog, Head(request_queue).id)
    /\ hpc' = "doc"
    /\ UNCHANGED <<results, lock, raised, docOpen, now, nextId, clientVars,
                   enqLog, execLog, drainNo, escaped, returned>>

(* Line 36 fails: the loop and the `with` block end, Execute returns.      *)
ExecuteLoopExit ==
    /\ hpc = "loop"
    /\ request_queue = <<>>
    /\ lock' = Free
    /\ hpc' = "idle"
    /\ cur' = NoRequest
    /\ UNCHANGED <<request_queue, results, raised, docOpen, now, nextId,
                   clientVars, histVars>>

(* Line 41, outside the try: uiapp.ActiveUIDocument.Document.              *)
ExecuteReadDoc ==
    /\ hpc = "doc"
    /\ docOpen
    /\ hpc' = "dispatch"
    /\ UNCHANGED <<request_queue, results, lock, raised, cur, docOpen, now, nextId,
                   clientVars, histVars>>

(* Line 41 with no active document: None has no attribute Document; the    *)
(* AttributeError leaves the `with` block and Execute.                     *)
ExecuteReadDocRaises ==
    /\ hpc = "doc"
    /\ ~docOpen
    /\ lock' = Free
    /\ hpc' = "idle"
    /\ cur' = NoRequest
    /\ escaped' = escaped \cup {drainNo}
    /\ UNCHANGED <<request_queue, results, raised, docOpen, now, nextId,
                   clientVars, enqLog, popLog, execLog, drainNo, returned>>

(* Lines 53-64: what dispatch_operation can do with a request.             *)
DispatchOutcomes(operation, params) ==
    IF operation = PlaceView
    THEN IF params = ParamsNone
         THEN {[kind |-> "raise", value |-> "AttributeError"]}
         ELSE {[kind |-> "return", value |-> "success"],
               [kind |-> "return", value |-> "error"]}
    ELSE {[kind |-> "raise", value |-> "NotImplementedError"]}

(* Lines 45-46: the try block is entered and dispatch_operation called.    *)
ExecuteDispatch ==
    /\ hpc = "dispatch"
    /\ execLog' = Append(execLog, [id |-> cur.id, drain |-> drainNo,
                                   behind |-> QueueIds(request_queue),
                                   outcome |-> "running", value |-> ""])
    /\ hpc' = "running"
    /\ UNCHANGED <<request_queue, results, lock, raised, cur, docOpen, now, nextId,
                   clientVars, enqLog, popLog, drainNo, escaped, returned>>

(* Mutant: a returned value that reports an error is stored as a failure.  *)
ExecuteOpReturns_ErrorFails(value) ==
    /\ hpc = "running"
    /\ [kind |-> "return", value |-> value] \in DispatchOutcomes(cur.operation, cur.params)
    /\ results' = DictSet(results, cur.id,
                          IF value = "error"
                          THEN [status |-> "failed", message |-> value]
                          ELSE [status |-> "completed", result |-> value])
    /\ hpc' = "loop"
    /\ execLog' = LogOutcome(execLog, "returned", value)
    /\ UNCHANGED <<request_queue, lock, raised, cur, docOpen, now, nextId,
                   clientVars, enqLog, popLog, drainNo, escaped, returned>>

(* Mutant: the completed result keeps a message next to the payload.       *)
ExecuteOpReturns_WithMessage(value) ==
    /\ hpc = "running"
    /\ [kind |-> "return", value |-> value] \in DispatchOutcomes(cur.operation, cur.params)
    /\ results' = DictSet(results, cur.id,
                          [status |-> "completed", result |-> value, message |-> ""])
    /\ hpc' = "loop"
    /\ execLog' = LogOutcome(execLog, "returned", value)
    /\ UNCHANGED <<request_queue, lock, raised, cur, docOpen, now, nextId,
                   clientVars, enqLog, popLog, drainNo, escaped, returned>>

(* Lines 46-48: the operation returned.                                    *)
ExecuteOpReturns(value) ==
    /\ hpc = "running"
    /\ [kind |-> "return", value |-> value] \in DispatchOutcomes(cur.operation, cur.params)
    /\ results' = DictSet(results, cur.id, [status |-> "completed", result |-> value])
    /\ hpc' = "loop"
    /\ execLog' = LogOutcome(execLog, "returned", value)
    /\ UNCHANGED <<request_queue, lock, raised, cur, docOpen, now, nextId,
                   clientVars, enqLog, popLog, drainNo, escaped, returned>>

(* Mutant: no try/except around dispatch_operation; the error leaves the  *)
(* `with` block and Execute.                                               *)
ExecuteOpRaises_Propagates(error) ==
    /\ hpc = "running"
    /\ [kind |-> "raise", value |-> error] \in DispatchOutcomes(cur.operation, cur.params)
    /\ lock' = Free
    /\ hpc' = "idle"
    /\ cur' = NoRequest
    /\ escaped' = escaped \cup {drainNo}
    /\ execLog' = LogOutcome(execLog, "raised", error)
    /\ UNCHANGED <<request_queue, results, raised, docOpen, now, nextId,
                   clientVars, enqLog, popLog, drainNo, returned>>

(* Lines 49-51: the operation raised.                                      *)
ExecuteOpRaises(error) ==
    /\ hpc = "running"
    /\ [kind |-> "raise", value |-> error] \in DispatchOutcomes(cur.operation, cur.params)
    /\ results' = DictSet(results, cur.id, [status |-> "failed", message |-> error])
    /\ hpc' = "loop"
    /\ execLog' = LogOutcome(execLog, "raised", error)
    /\ UNCHANGED <<request_queue, lock, raised, cur, docOpen, now, nextId,
                   clientVars, enqLog, popLog, drainNo, escaped, returned>>

(***************************************************************************)
(* The environment.                                                        *)
(***************************************************************************)
(* The user opens or closes the document.  Revit does this on the host     *)
(* thread, so never while Execute runs.                                    *)
ToggleDocument ==
    /\ hpc = "idle"
    /\ docOpen' = ~docOpen
    /\ UNCHANGED <<bridgeVars, now, nextId, clientVars, histVars>>

Tick ==
    /\ now < MaxTicks * TickSeconds
    /\ now' = now + TickSeconds
    /\ UNCHANGED <<bridgeVars, docOpen, nextId, clientVars, histVars>>

(***************************************************************************)
(* The completion poller of standalone_mcp_server.py (its state is         *)
(* declared here; its actions follow the bridge's specification).          *)
(***************************************************************************)
VARIABLES
    ptool,      \* handle_tool_call's tool_name
    ppc,        \* where the poller's coroutine is
    pelapsed,   \* time.time() - start_time, in half seconds
    presp,      \* the latest HTTP exchange
    pseen,      \* history: the status polls answered so far, as <<code, status>>
    pout        \* what handle_tool_call returned

pollVars == <<ptool, ppc, pelapsed, presp, pseen, pout>>

NoResponse == [kind |-> "none", code |-> 0, body |-> [status |-> "none"]]
NoOutcome == [kind |-> "none", src |-> "none", value |-> [status |-> "none"]]

(***************************************************************************)
(* server.py: plan_and_execute_workflow_tool and its substitute_placeholders. *)
(***************************************************************************)
VARIABLES
    execution_plan,  \* the argument execution_plan: its steps when it is a list
    plan_type,       \* the type of the argument execution_plan
    wpc,             \* where the executor is
    step_no,         \* the loop's i (0 before the first step)
    step_info,       \* the loop's step_info
    tool_params,     \* the loop's tool_params, after substitution
    executed_steps,  \* workflow_results["executed_steps"]
    step_results,    \* workflow_results["step_results"]
    chain,           \* workflow_results' step_{i}_{key} entries
    final_status,    \* workflow_results["final_status"]
    callLog          \* history: the tool calls made, in order

wfVars == <<execution_plan, plan_type, wpc, step_no, step_info, tool_params, executed_steps,
            step_results, chain, final_status, callLog>>

VARIABLES
    sobj,    \* substitute_placeholders' argument obj
    sstore,  \* the step_{i}_{key} entries of workflow_results it reads
    spc,     \* whether it has returned
    sout     \* what it returned

substVars == <<sobj, sstore, spc, sout>>

VARIABLES
    plans,             \* run -> the execution_plan it was called with
    rpc,               \* run -> where that call of the executor is
    rstep,             \* run -> its loop's i
    rparams,           \* run -> its loop's tool_params, after substitution
    workflow_results,  \* run -> the step_{i}_{key} entries of its workflow_results
    reports,           \* run -> its workflow_results["step_results"]
    element_storage,   \* the module's element_storage, one dict for all runs
    runCalls           \* history: the tool calls of all runs, in order

runVars == <<plans, rpc, rstep, rparams, workflow_results, reports, element_storage, runCalls>>

VARIABLES
    selected_model,    \* the provider branch of chat_api that runs
    chat_pc,           \* where that branch is
    iteration,         \* its iteration
    tool_calls,        \* the tool calls in the response in hand
    llm_requests,      \* history: the requests made to the LLM
    tool_rounds,       \* history: the iterations that executed tool calls
    tools_executed,    \* history: the calls of execute_tool_call
    model_reply_text   \* the reply

chatVars == <<selected_model, chat_pc, iteration, tool_calls, llm_requests, tool_rounds,
              tools_executed, model_reply_text>>

VARIABLES
    session_storage,  \* element_storage as the ordered dict it is: its items, in key order
    store_clock,      \* history: the store_elements calls so far
    sel_result,       \* what the latest select_stored_elements call returned
    sel_call,         \* history: the category, stored_data and listener payload of that call
    host_sent         \* history: the sizes of all the selections sent to the listener

selVars == <<session_storage, store_clock, sel_result, sel_call, host_sent>>

allVars == <<vars, pollVars, wfVars, substVars, runVars, chatVars, selVars>>

(* Python values, tagged with their type.                                  *)
StrVal(atoms) == [t |-> "str", v |-> atoms]
IntVal(n) == [t |-> "int", v |-> n]
ListVal(items) == [t |-> "list", v |-> items]
DictVal(d) == [t |-> "dict", v |-> d]
NoneVal == [t |-> "none", v |-> <<>>]

(* step_info; error is the text of step_info["error"], <<>> while the key  *)
(* is not set.                                                             *)
NoStepInfo ==
    [step_number |-> 0, tool |-> "", description |-> "", status |-> "pending",
     result |-> NoneVal, error |-> <<>>]

(* plan_and_execute_workflow_tool is not running.                          *)
WfOff ==
    /\ execution_plan = <<>>
    /\ plan_type = "list"
    /\ wpc = "off"
    /\ step_no = 0
    /\ step_info = NoStepInfo
    /\ tool_params = NoneVal
    /\ executed_steps = <<>>
    /\ step_results = <<>>
    /\ chain = <<>>
    /\ final_status = "success"
    /\ callLog = <<>>

(* Two calls of plan_and_execute_workflow_tool, served by two threads.     *)
Runs == {"A", "B"}

(* No second executor is running.                                          *)
RunsOff ==
    /\ plans = [r \in Runs |-> <<>>]
    /\ rpc = [r \in Runs |-> "off"]
    /\ rstep = [r \in Runs |-> 0]
    /\ rparams = [r \in Runs |-> NoneVal]
    /\ workflow_results = [r \in Runs |-> <<>>]
    /\ reports = [r \in Runs |-> <<>>]
    /\ element_storage = <<>>
    /\ runCalls = <<>>

(* get_stored_elements found nothing; a call that sent nothing to the      *)
(* listener; no select_stored_elements call yet.                           *)
NoEntry == [key |-> <<>>, total |-> 0, category |-> <<>>, stamp |-> 0]
NoCall == -1
NoSelection == [category |-> <<>>, used |-> NoEntry, sent |-> NoCall]

(* The element store is empty and not used.                                *)
SelectOff ==
    /\ session_storage = <<>>
    /\ store_clock = 0
    /\ sel_result = [status |-> "none"]
    /\ sel_call = NoSelection
    /\ host_sent = {}

(* chat_api is not running.                                                *)
ChatOff ==
    /\ selected_model = "echo_model"
    /\ chat_pc = "off"
    /\ iteration = 0
    /\ tool_calls = 0
    /\ llm_requests = 0
    /\ tool_rounds = 0
    /\ tools_executed = 0
    /\ model_reply_text = ""

(* substitute_placeholders is not running.                                 *)
SubstOff ==
    /\ sobj = NoneVal
    /\ sstore = <<>>
    /\ spc = "off"
    /\ sout = NoneVal

(* The poller is not running.                                              *)
PollOff ==
    /\ ptool = "none"
    /\ ppc = "off"
    /\ pelapsed = 0
    /\ presp = NoResponse
    /\ pseen = {}
    /\ pout = NoOutcome

ReturnValues == {"success", "error"}
ErrorValues == {"AttributeError", "NotImplementedError"}

Next ==
    \/ /\ \E t \in Clients, input \in TriggerInputs :
               TriggerBuild(t, input[1], input[2])
       /\ UNCHANGED <<pollVars, wfVars, substVars, runVars, chatVars, selVars>>
    \/ /\ \E t \in Clients : TriggerAppend(t)
       /\ UNCHANGED <<pollVars, wfVars, substVars, runVars, chatVars, selVars>>
    \/ /\ \E t \in Clients : TriggerSeed(t)
       /\ UNCHANGED <<pollVars, wfVars, substVars, runVars, chatVars, selVars>>
    \/ /\ \E t \in Clients : TriggerRaise(t)
       /\ UNCHANGED <<pollVars, wfVars, substVars, runVars, chatVars, selVars>>
    \/ /\ \E t \in Clients, event_id \in (1..MaxRequests) \cup UnknownIds :
               StatusCall(t, event_id)
       /\ UNCHANGED <<pollVars, wfVars, substVars, runVars, chatVars, selVars>>
    \/ /\ \E t \in Clients : StatusCleanup(t)
       /\ UNCHANGED <<pollVars, wfVars, substVars, runVars, chatVars, selVars>>
    \/ /\ \E t \in Clients : StatusRead(t)
       /\ UNCHANGED <<pollVars, wfVars, substVars, runVars, chatVars, selVars>>
    \/ ExecuteEnter /\ UNCHANGED <<pollVars, wfVars, substVars, runVars, chatVars, selVars>>
    \/ ExecuteEmptyReturn /\ UNCHANGED <<pollVars, wfVars, substVars, runVars, chatVars, selVars>>
    \/ ExecuteCheckPass /\ UNCHANGED <<pollVars, wfVars, substVars, runVars, chatVars, selVars>>
    \/ ExecutePop /\ UNCHANGED <<pollVars, wfVars, substVars, runVars, chatVars, selVars>>
    \/ ExecuteLoopExit /\ UNCHANGED <<pollVars, wfVars, substVars, runVars, chatVars, selVars>>
    \/ ExecuteReadDoc /\ UNCHANGED <<pollVars, wfVars, substVars, runVars, chatVars, selVars>>
    \/ ExecuteReadDocRaises /\ UNCHANGED <<pollVars, wfVars, substVars, runVars, chatVars, selVars>>
    \/ ExecuteDispatch /\ UNCHANGED <<pollVars, wfVars, substVars, runVars, chatVars, selVars>>
    \/ /\ \E value \in ReturnValues : ExecuteOpReturns(value)
       /\ UNCHANGED <<pollVars, wfVars, substVars, runVars, chatVars, selVars>>
    \/ /\ \E error \in ErrorValues : ExecuteOpRaises(error)
       /\ UNCHANGED <<pollVars, wfVars, substVars, runVars, chatVars, selVars>>
    \/ ToggleDocument /\ UNCHANGED <<pollVars, wfVars, substVars, runVars, chatVars, selVars>>
    \/ Tick /\ UNCHANGED <<pollVars, wfVars, substVars, runVars, chatVars, selVars>>

(* The bridge alone: the other components stay as they start.              *)
SpecInit == Init /\ PollOff /\ WfOff /\ SubstOff /\ RunsOff /\ ChatOff /\ SelectOff

Spec == SpecInit /\ [][Next]_allVars

(***************************************************************************)
(* Definitions the properties are stated with.                             *)
(***************************************************************************)
ExecIndexes(id) == {i \in DOMAIN execLog : execLog[i].id = id}

(* Execute has popped the request and is no longer working on it.          *)
Drained(id) ==
    /\ id \in Range(popLog)
    /\ ~(cur.id = id /\ hpc \in {"doc", "dispatch", "running"})

EnqTime(id) == enqLog[CHOOSE i \in DOMAIN enqLog : enqLog[i].id = id].timestamp

StatusReturns(t) == cpc[t] = "s_read" /\ cpc'[t] = "idle"

(***************************************************************************)
(* C1.  FIFO execution: if R1 was appended to the queue before R2, then    *)
(* R1's operation is dispatched before R2's: whenever R2's operation has   *)
(* been dispatched, R1's was dispatched earlier.                           *)
(***************************************************************************)
C1_FifoDispatch ==
    \A i, j \in DOMAIN enqLog :
        (i < j /\ ExecIndexes(enqLog[j].id) # {}) =>
            \E a \in ExecIndexes(enqLog[i].id) :
                \A b \in ExecIndexes(enqLog[j].id) : a < b

(***************************************************************************)
(* C2.  Exactly-once execution: no request is dispatched twice, and a      *)
(* request the host has drained has been dispatched exactly once.          *)
(***************************************************************************)
C2_ExactlyOnce ==
    \A i \in DOMAIN enqLog :
        LET id == enqLog[i].id IN
        /\ Cardinality(ExecIndexes(id)) <= 1
        /\ Drained(id) => Cardinality(ExecIndexes(id)) = 1

(***************************************************************************)
(* C3.  Status lifecycle: get_event_status of a submitted id returns       *)
(* 'processing' before the host has drained the request and a terminal     *)
(* result after, and a terminal result, once stored, stays as it is.       *)
(***************************************************************************)
C3_StatusLifecycle ==
    [][/\ \A t \in Clients :
              (StatusReturns(t) /\ carg[t] \in returned) =>
                  IF Drained(carg[t])
                  THEN IsTerminal(ret'[t].value)
                  ELSE ret'[t].value = [status |-> "processing"]
       /\ \A id \in DOMAIN results :
              IsTerminal(results[id]) =>
                  id \in DOMAIN results' /\ results'[id] = results[id]]_vars

(***************************************************************************)
(* C4.  Atomic seeding: a queued request without a Result exists only      *)
(* while its submitter holds the lock between the append and the seeding,  *)
(* and a status read of an id trigger_event returned is never 'not_found'. *)
(***************************************************************************)
C4_AtomicSeeding ==
    /\ \A i \in DOMAIN request_queue :
           request_queue[i].id \notin DOMAIN results =>
               /\ lock \in Clients
               /\ cpc[lock] = "t_seed"
               /\ creq[lock].id = request_queue[i].id
    /\ \A t \in Clients :
           (ret[t].call = "status" /\ ret[t].id \in returned) =>
               ret[t].value.status # "not_found"

(* A poll of a returned id whose request is still queued saw 'processing'. *)
C4_Witness ==
    \E t \in Clients :
        /\ ret[t].call = "status"
        /\ ret[t].id \in QueueIds(request_queue)
        /\ ret[t].value = [status |-> "processing"]

(***************************************************************************)
(* C5.  Failure isolation: an operation that raised left a 'failed'        *)
(* Result with its message, no exception left that Execute call, and every *)
(* request queued behind it was dispatched in the same Execute call.       *)
(***************************************************************************)
C5_FailureIsolation ==
    \A i \in DOMAIN execLog :
        LET e == execLog[i] IN
        e.outcome = "raised" =>
            /\ results[e.id] = [status |-> "failed", message |-> e.value]
            /\ e.drain \notin escaped
            /\ (hpc = "idle" \/ drainNo > e.drain) =>
                   \A b \in e.behind :
                       \E j \in ExecIndexes(b) : j > i /\ execLog[j].drain = e.drain

(* An Execute call is over in which an operation raised with a request     *)
(* queued behind it.                                                       *)
C5_Witness ==
    /\ hpc = "idle"
    /\ \E i \in DOMAIN execLog :
           execLog[i].outcome = "raised" /\ execLog[i].behind # {}

(***************************************************************************)
(* C6.  No lost request: once Execute is over, every request it removed    *)
(* from the queue has a terminal Result.                                   *)
(***************************************************************************)
C6_NoLostRequest ==
    hpc = "idle" =>
        \A id \in Range(popLog) : IsTerminal(results[id])

C8_EmptyNameRejected ==
    /\ \A i \in DOMAIN enqLog : enqLog[i].operation # EmptyName
    /\ \A t \in Clients :
           creq[t].operation = EmptyName =>
               creq[t].id \notin (DOMAIN results) \cup returned

(***************************************************************************)
(* C9.  Non-blocking submit: while the host is executing an operation, a   *)
(* submit waiting to enqueue and a status read can take their next step.   *)
(***************************************************************************)
C9_NonBlocking ==
    hpc = "running" =>
        \A t \in Clients :
            /\ cpc[t] = "t_append" => ENABLED TriggerAppend(t)
            /\ cpc[t] = "s_clean" => ENABLED StatusCleanup(t)
            /\ cpc[t] = "s_read" => ENABLED StatusRead(t)

(***************************************************************************)
(* C10.  Pruning: the sweep of a get_event_status call removes every       *)
(* terminal Result whose request was enqueued max_age_seconds ago or more. *)
(***************************************************************************)
C10_OldTerminalPruned ==
    [][\A t \in Clients :
           (cpc[t] = "s_clean" /\ cpc'[t] = "s_read") =>
               \A id \in DOMAIN results :
                   (IsTerminal(results[id]) /\ now - EnqTime(id) >= max_age_seconds)
                       => id \notin DOMAIN results']_vars

(***************************************************************************)
(* C11.  Processing Results are never pruned: no step, a sweep of          *)
(* get_event_status included, removes a Result whose status is             *)
(* 'processing' from the result store, whatever its age.                   *)
(***************************************************************************)
C11_ProcessingNeverPruned ==
    [][\A id \in DOMAIN results :
           results[id].status = "processing" => id \in DOMAIN results']_vars

(* A status call made max_age_seconds or more after a request was enqueued *)
(* has returned (it was made for a request built that late), and the old   *)
(* request's Result is still 'processing'.                                 *)
C11_Witness ==
    \E i, j \in DOMAIN enqLog :
        /\ enqLog[j].timestamp - enqLog[i].timestamp >= max_age_seconds
        /\ enqLog[i].id \in DOMAIN results
        /\ results[enqLog[i].id].status = "processing"
        /\ \E t \in Clients : ret[t].call = "status" /\ ret[t].id = enqLog[j].id


(***************************************************************************)
(* standalone_mcp_server.py: handle_tool_call, place_view_on_sheet,        *)
(* list_views and wait_for_completion.  Time is counted in half seconds,   *)
(* the length of one asyncio.sleep(0.5).                                   *)
(***************************************************************************)
(* Bound: the half seconds one status GET can take.                        *)
MaxGetDelay == 1

(* wait_for_completion(event_id, timeout=30): seconds.                     *)
wait_timeout == 30
(* asyncio.sleep(0.5): one half second, two of them to the second.         *)
sleep_half_seconds == 1
HalfSecondsPerSecond == 2
(* response.status == 200                                                  *)
HttpOk == 200
(* raise_for_status() raises for a status of 400 and above.                *)
HttpErrorFloor == 400

PlaceViewTool == "place_view_on_sheet"
ListViewsTool == "list_views"
UnknownTool == "unknown_tool"
Tools == {PlaceViewTool, ListViewsTool, UnknownTool}

(* What an HTTP exchange can come to: an exception of the transport, or a  *)
(* response with a status code and a JSON body.                            *)
ExcResponse(e) == [kind |-> "exc", code |-> 0, exc |-> e, body |-> [status |-> "none"]]
HttpResponse(code, body) == [kind |-> "http", code |-> code, exc |-> "", body |-> body]

(* Connection refused, and the transport's own timeout.                    *)
TransportErrors == {"ClientConnectorError", "TimeoutError"}

(* POST /events/trigger                                                    *)
TriggerResponses ==
    {ExcResponse(e) : e \in TransportErrors}
    \cup {HttpResponse(200, [status |-> "processing", event_id |-> 1]),
          HttpResponse(200, [status |-> "error"]),
          HttpResponse(400, [status |-> "error"]),
          HttpResponse(500, [status |-> "error"])}

(* GET /events/status/{event_id}                                           *)
StatusResponses ==
    {ExcResponse(e) : e \in TransportErrors}
    \cup {HttpResponse(200, [status |-> "processing"])}
    \cup {HttpResponse(200, [status |-> "completed", result |-> [status |-> v]]) :
              v \in ReturnValues}
    \cup {HttpResponse(200, [status |-> "failed", message |-> e]) : e \in ErrorValues}
    \cup {HttpResponse(404, [status |-> "not_found"]),
          HttpResponse(500, [status |-> "error"])}

(* GET /sheets/list_views                                                  *)
ListViewsResponses ==
    {ExcResponse(e) : e \in TransportErrors}
    \cup {HttpResponse(200, [status |-> "success"]),
          HttpResponse(500, [status |-> "error"])}

(* dict.get(key, default)                                                  *)
Get(d, key, default) == IF key \in DOMAIN d THEN d[key] ELSE default

TimeoutMessage == "Operation timed out waiting for Revit."

(* History: what a status poll was answered with.                          *)
Seen(resp) == <<resp.kind, resp.code, resp.body.status>>

(* A tools/call request has arrived.                                       *)
PollInit ==
    /\ ptool \in Tools
    /\ ppc = "call"
    /\ pelapsed = 0
    /\ presp = NoResponse
    /\ pseen = {}
    /\ pout = NoOutcome

(* Line 114: the JSON-RPC result carrying `result`.                        *)
ToolReturns(src, value) ==
    /\ ppc' = "done"
    /\ pout' = [kind |-> "result", src |-> src, value |-> value]

(* str(e) of the exception handle_tool_call caught.                        *)
Failure(message) == [status |-> "raised", message |-> message]

(* Lines 116-117: any exception becomes the JSON-RPC error                 *)
(* "Tool execution failed: <message>".                                     *)
ToolRaises(src, message) ==
    /\ ppc' = "done"
    /\ pout' = [kind |-> "error", src |-> src, value |-> Failure(message)]

(* Lines 103-112: handle_tool_call picks the tool by its name.             *)
HandleToolCall ==
    /\ ppc = "call"
    /\ IF ptool = PlaceViewTool
       THEN ppc' = "post" /\ pout' = pout
       ELSE IF ptool = ListViewsTool
            THEN ppc' = "list" /\ pout' = pout
            ELSE ToolRaises("call", "Unknown tool")
    /\ UNCHANGED <<ptool, pelapsed, presp, pseen>>

(* Mutant: place_view_on_sheet without raise_for_status().                 *)
PostTrigger_NoRaiseForStatus(resp) ==
    /\ ppc = "post"
    /\ presp' = resp
    /\ IF resp.kind = "exc"
       THEN ToolRaises("trigger", resp.exc) /\ pelapsed' = pelapsed
       ELSE IF resp.body.status = "processing" /\ Get(resp.body, "event_id", NoId) # NoId
            THEN ppc' = "loop" /\ pelapsed' = 0 /\ pout' = pout
            ELSE ToolReturns("trigger", resp.body) /\ pelapsed' = pelapsed
    /\ UNCHANGED <<ptool, pseen>>

(* Lines 120-138 and 151: place_view_on_sheet posts the trigger;           *)
(* an accepted request goes on to wait_for_completion, whose first         *)
(* statement reads start_time.                                             *)
PostTrigger(resp) ==
    /\ ppc = "post"
    /\ presp' = resp
    /\ IF resp.kind = "exc"
       THEN ToolRaises("trigger", resp.exc) /\ pelapsed' = pelapsed
       ELSE IF resp.code >= HttpErrorFloor
            THEN ToolRaises("trigger", "HTTPError") /\ pelapsed' = pelapsed
            ELSE IF resp.body.status = "processing"
                    /\ Get(resp.body, "event_id", NoId) # NoId
                 THEN ppc' = "loop" /\ pelapsed' = 0 /\ pout' = pout
                 ELSE ToolReturns("trigger", resp.body) /\ pelapsed' = pelapsed
    /\ UNCHANGED <<ptool, pseen>>

(* Lines 140-147: list_views.                                              *)
ListViews(resp) ==
    /\ ppc = "list"
    /\ presp' = resp
    /\ IF resp.kind = "exc"
       THEN ToolRaises("list", resp.exc)
       ELSE IF resp.code >= HttpErrorFloor
            THEN ToolRaises("list", "HTTPError")
            ELSE ToolReturns("list", resp.body)
    /\ UNCHANGED <<ptool, pelapsed, pseen>>

(* Mutant: the loop gives back the latest response when the time is up.    *)
WaitLoop_ReturnsLatest ==
    /\ ppc = "loop"
    /\ IF pelapsed < wait_timeout * HalfSecondsPerSecond
       THEN ppc' = "sleep" /\ pout' = pout
       ELSE ToolReturns("wait", presp.body)
    /\ UNCHANGED <<ptool, pelapsed, presp, pseen>>

(* Lines 152 and 162: the loop's condition; the TimeoutError once it fails. *)
WaitLoop ==
    /\ ppc = "loop"
    /\ IF pelapsed < wait_timeout * HalfSecondsPerSecond
       THEN ppc' = "sleep" /\ pout' = pout
       ELSE ToolRaises("wait", TimeoutMessage)
    /\ UNCHANGED <<ptool, pelapsed, presp, pseen>>

(* Mutant: the wait between two polls is twice as long.                    *)
WaitSleep_Backoff ==
    /\ ppc = "sleep"
    /\ pelapsed' = pelapsed + 2 * sleep_half_seconds
    /\ ppc' = "get"
    /\ UNCHANGED <<ptool, presp, pseen, pout>>

(* Line 153: await asyncio.sleep(0.5).                                     *)
WaitSleep ==
    /\ ppc = "sleep"
    /\ pelapsed' = pelapsed + sleep_half_seconds
    /\ ppc' = "get"
    /\ UNCHANGED <<ptool, presp, pseen, pout>>

(* Mutant: any 200 response ends the wait.                                 *)
WaitGet_AnyOk(resp, delay) ==
    /\ ppc = "get"
    /\ presp' = resp
    /\ pseen' = pseen \cup {Seen(resp)}
    /\ pelapsed' = pelapsed + delay
    /\ IF resp.kind = "exc"
       THEN ToolRaises("wait", resp.exc)
       ELSE IF resp.code = HttpOk
            THEN ToolReturns("wait", Get(resp.body, "result", resp.body))
            ELSE ppc' = "loop" /\ pout' = pout
    /\ UNCHANGED ptool

(* Lines 154-161: one status poll, which takes `delay` half seconds.       *)
WaitGet(resp, delay) ==
    /\ ppc = "get"
    /\ presp' = resp
    /\ pseen' = pseen \cup {Seen(resp)}
    /\ pelapsed' = pelapsed + delay
    /\ IF resp.kind = "exc"
       THEN ToolRaises("wait", resp.exc)
       ELSE IF resp.code = HttpOk /\ resp.body.status \in {"completed", "failed"}
            THEN ToolReturns("wait", Get(resp.body, "result", resp.body))
            ELSE ppc' = "loop" /\ pout' = pout
    /\ UNCHANGED ptool

PollNext ==
    \/ HandleToolCall /\ UNCHANGED <<vars, wfVars, substVars, runVars, chatVars, selVars>>
    \/ /\ \E resp \in TriggerResponses : PostTrigger(resp)
       /\ UNCHANGED <<vars, wfVars, substVars, runVars, chatVars, selVars>>
    \/ /\ \E resp \in ListViewsResponses : ListViews(resp)
       /\ UNCHANGED <<vars, wfVars, substVars, runVars, chatVars, selVars>>
    \/ WaitLoop /\ UNCHANGED <<vars, wfVars, substVars, runVars, chatVars, selVars>>
    \/ WaitSleep /\ UNCHANGED <<vars, wfVars, substVars, runVars, chatVars, selVars>>
    \/ /\ \E resp \in StatusResponses, delay \in 0..MaxGetDelay : WaitGet(resp, delay)
       /\ UNCHANGED <<vars, wfVars, substVars, runVars, chatVars, selVars>>

(* The poller alone, against a front that may answer anything.             *)
PollSpecInit == Init /\ PollInit /\ WfOff /\ SubstOff /\ RunsOff /\ ChatOff /\ SelectOff

PollSpec == PollSpecInit /\ [][PollNext]_allVars

(* The event loop runs the coroutine on: each await comes back.            *)
PollFairSpec == PollSpec /\ WF_allVars(PollNext)

(* C12: wait_for_completion returns only after a status poll answered      *)
(* 'completed' or 'failed', and returns that Result's payload: the         *)
(* operation's return value when completed, the failure record when failed. *)
C12_PollerResult ==
    (ppc = "done" /\ pout.kind = "result" /\ pout.src = "wait") =>
        /\ presp.kind = "http"
        /\ presp.code = 200
        /\ presp.body.status \in {"completed", "failed"}
        /\ Seen(presp) \in pseen
        /\ IF presp.body.status = "completed"
           THEN pout.value = presp.body.result
           ELSE pout.value = presp.body /\ "message" \in DOMAIN presp.body

C12_Witness ==
    /\ ppc = "done" /\ pout.kind = "result" /\ pout.src = "wait"
    /\ presp.body.status = "failed"
    /\ <<"http", 200, "processing">> \in pseen

(* C13: when every status poll answers 'processing', wait_for_completion   *)
(* ends by raising the timeout failure and returns no Result; the poll     *)
(* loop always ends.                                                       *)
C13_PollerTimeout ==
    /\ [](  (ppc = "done" /\ pout.src = "wait"
                /\ pseen \subseteq {<<"http", 200, "processing">>})
          => (pout.kind = "error" /\ pout.value = Failure(TimeoutMessage)))
    /\ (ppc = "loop") ~> (ppc = "done")

C13_Witness ==
    /\ ppc = "done" /\ pout.src = "wait"
    /\ pseen = {<<"http", 200, "processing">>}
    /\ pout.kind = "error" /\ pout.value = Failure(TimeoutMessage)

(* The bridge's front was not reached: the exchange raised, or was         *)
(* answered with an HTTP error status.                                     *)
TransportRaised(resp) == resp.kind = "exc"
HttpErrorResponse(resp) == resp.kind = "http" /\ resp.code >= 400

(* C14 as stated: whenever the trigger or a status poll fails to reach the *)
(* front (exception or HTTP error response), the caller gets a terminal    *)
(* failure at once.                                                        *)
C14_TransportTerminal ==
    [][(ppc \in {"post", "get"}
            /\ (TransportRaised(presp') \/ HttpErrorResponse(presp')))
        => (ppc' = "done" /\ pout'.kind = "error")]_pollVars

(* C14 amended: an exception of the transport during trigger or polling,   *)
(* and an HTTP error response to the trigger, end the call at once with a  *)
(* JSON-RPC error; a 'failed' Result comes back as a JSON-RPC result, so   *)
(* the two are told apart.  An HTTP error response to a status poll does   *)
(* not end the call: the loop goes on.                                     *)
C14_Amended ==
    /\ [][(\/ ppc \in {"post", "get"} /\ TransportRaised(presp')
           \/ ppc = "post" /\ HttpErrorResponse(presp'))
          => (ppc' = "done" /\ pout'.kind = "error" /\ pout'.value # Failure(TimeoutMessage))]_pollVars
    /\ [][(ppc = "get" /\ HttpErrorResponse(presp'))
          => (ppc' = "loop" /\ pout' = pout)]_pollVars
    /\ []((ppc = "done" /\ pout.src = "wait" /\ presp.kind = "http"
              /\ presp.body.status = "failed")
          => pout.kind = "result")

C14_Witness ==
    /\ ppc = "done" /\ pout.kind = "error" /\ pout.src = "wait"
    /\ presp.kind = "exc"
    /\ <<"http", 404, "not_found">> \in pseen

(***************************************************************************)
(* server.py: substitute_placeholders.  A Python string is a sequence of   *)
(* atoms: the characters "$", "{", "}", "_", the digits and the blank on   *)
(* their own, and words (runs of other characters) as one atom each.       *)
(***************************************************************************)
(* Bound: the pieces a string given to substitute_placeholders is made of. *)
MaxChunks == 3

DigitAtoms == <<"0", "1", "2", "3", "4", "5", "6", "7", "8", "9">>
IsDigit(a) == \E k \in DOMAIN DigitAtoms : DigitAtoms[k] = a
DigitOf(a) == (CHOOSE k \in DOMAIN DigitAtoms : DigitAtoms[k] = a) - 1

(* int(match.group(1))                                                     *)
RECURSIVE ParseInt(_)
ParseInt(ds) ==
    IF ds = <<>> THEN 0
    ELSE ParseInt(SubSeq(ds, 1, Len(ds) - 1)) * 10 + DigitOf(ds[Len(ds)])

(* str(n) of an int n >= 0, as the f-string and str(value) write it.       *)
RECURSIVE IntStr(_)
IntStr(n) ==
    IF n < 10 THEN <<DigitAtoms[n + 1]>>
    ELSE IntStr(n \div 10) \o <<DigitAtoms[(n % 10) + 1]>>

(* obj.strip()                                                             *)
RECURSIVE Strip(_)
Strip(str) ==
    IF str = <<>> THEN str
    ELSE IF str[1] = " " THEN Strip(Tail(str))
    ELSE IF str[Len(str)] = " " THEN Strip(SubSeq(str, 1, Len(str) - 1))
    ELSE str

(* The pattern \$\{step_(\d+)_([^}]+)\} tried at position p of str.  \d+   *)
(* takes the whole run of digits and [^}]+ everything up to the next "}";  *)
(* giving some of it back never lets the rest of the pattern match.        *)
PatternHead == <<"$", "{", "step", "_">>

RECURSIVE DigitsEnd(_, _)
DigitsEnd(str, q) ==
    IF q <= Len(str) /\ IsDigit(str[q]) THEN DigitsEnd(str, q + 1) ELSE q

RECURSIVE BraceAt(_, _)
BraceAt(str, q) ==
    IF q <= Len(str) /\ str[q] # "}" THEN BraceAt(str, q + 1) ELSE q

(* The position of the "_" after group 1, and of the closing "}".          *)
MatchSep(str, p) == DigitsEnd(str, p + Len(PatternHead))
MatchEnd(str, p) == BraceAt(str, MatchSep(str, p) + 1)

MatchOk(str, p) ==
    /\ p + Len(PatternHead) <= Len(str)
    /\ SubSeq(str, p, p + Len(PatternHead) - 1) = PatternHead
    /\ MatchSep(str, p) > p + Len(PatternHead)
    /\ MatchSep(str, p) <= Len(str)
    /\ str[MatchSep(str, p)] = "_"
    /\ MatchEnd(str, p) <= Len(str)
    /\ MatchEnd(str, p) > MatchSep(str, p) + 1

(* match.group(0), match.group(1), match.group(2)                          *)
MatchText(str, p) == SubSeq(str, p, MatchEnd(str, p))
MatchNum(str, p) == SubSeq(str, p + Len(PatternHead), MatchSep(str, p) - 1)
MatchKey(str, p) == SubSeq(str, MatchSep(str, p) + 1, MatchEnd(str, p) - 1)

(* f"step_{step_num}_{key}"                                                *)
PlaceholderKey(step_num, key) == <<"step", "_">> \o IntStr(step_num) \o <<"_">> \o key

MatchedKey(str, p) == PlaceholderKey(ParseInt(MatchNum(str, p)), MatchKey(str, p))

(* repr(item) of a list's item, and str(value).                            *)
RECURSIVE Repr(_)
RECURSIVE JoinRepr(_)
JoinRepr(items) ==
    IF items = <<>> THEN <<>>
    ELSE IF Len(items) = 1 THEN Repr(items[1])
    ELSE Repr(items[1]) \o <<", ">> \o JoinRepr(Tail(items))

Repr(value) ==
    CASE value.t = "str" -> <<"'">> \o value.v \o <<"'">>
      [] value.t = "int" -> IntStr(value.v)
      [] value.t = "list" -> <<"[">> \o JoinRepr(value.v) \o <<"]">>
      [] value.t = "none" -> <<"None">>
      [] OTHER -> <<"{...}">>

Str(value) == IF value.t = "str" THEN value.v ELSE Repr(value)

(* Mutant: a placeholder of an unrecorded key is dropped.                  *)
ReplacePlaceholder_DropsUnknown(obj, p, store) ==
    IF MatchedKey(obj, p) \in DOMAIN store
    THEN Str(store[MatchedKey(obj, p)])
    ELSE <<>>

(* Lines 561-574: replace_placeholder.  Line 568 holds for no match that   *)
(* re.sub hands over: such a string has been returned at line 583; re.sub  *)
(* raises TypeError when its replacement is not a str.                     *)
ReplacePlaceholder(obj, p, store) ==
    IF MatchedKey(obj, p) \in DOMAIN store
    THEN IF Strip(obj) = MatchText(obj, p)
         THEN IF store[MatchedKey(obj, p)].t = "str"
              THEN store[MatchedKey(obj, p)].v
              ELSE <<"TypeError">>
         ELSE Str(store[MatchedKey(obj, p)])
    ELSE MatchText(obj, p)

(* Mutant: re.sub with count=1.                                            *)
RECURSIVE ReSub_FirstOnly(_, _, _)
ReSub_FirstOnly(obj, p, store) ==
    IF p > Len(obj) THEN <<>>
    ELSE IF MatchOk(obj, p)
         THEN ReplacePlaceholder(obj, p, store)
                  \o SubSeq(obj, MatchEnd(obj, p) + 1, Len(obj))
         ELSE <<obj[p]>> \o ReSub_FirstOnly(obj, p + 1, store)

(* Line 586: re.sub(pattern, replace_placeholder, obj), from position p:   *)
(* the leftmost match, then on from its end.                               *)
RECURSIVE ReSub(_, _, _)
ReSub(obj, p, store) ==
    IF p > Len(obj) THEN <<>>
    ELSE IF MatchOk(obj, p)
         THEN ReplacePlaceholder(obj, p, store) \o ReSub(obj, MatchEnd(obj, p) + 1, store)
         ELSE <<obj[p]>> \o ReSub(obj, p + 1, store)

(* Mutant: every string goes through re.sub.                               *)
SubstituteStr_AlwaysSub(obj, store) ==
    StrVal(ReSub(obj, 1, store))

(* Lines 556-586: substitute_placeholders on a str.                        *)
SubstituteStr(obj, store) ==
    IF /\ MatchOk(Strip(obj), 1)
       /\ MatchEnd(Strip(obj), 1) = Len(Strip(obj))
       /\ MatchedKey(Strip(obj), 1) \in DOMAIN store
    THEN store[MatchedKey(Strip(obj), 1)]
    ELSE StrVal(ReSub(obj, 1, store))

(* Mutant: only the strings directly inside a dict are looked at.          *)
RECURSIVE Substitute_TopLevelOnly(_, _)
Substitute_TopLevelOnly(obj, store) ==
    CASE obj.t = "str" -> SubstituteStr(obj.v, store)
      [] obj.t = "dict" -> DictVal([k \in DOMAIN obj.v |->
                                       IF obj.v[k].t = "str"
                                       THEN SubstituteStr(obj.v[k].v, store)
                                       ELSE obj.v[k]])
      [] OTHER -> obj

(* Lines 554-592: substitute_placeholders.                                 *)
RECURSIVE Substitute(_, _)
Substitute(obj, store) ==
    CASE obj.t = "str" -> SubstituteStr(obj.v, store)
      [] obj.t = "dict" -> DictVal([k \in DOMAIN obj.v |-> Substitute(obj.v[k], store)])
      [] obj.t = "list" -> ListVal([i \in DOMAIN obj.v |-> Substitute(obj.v[i], store)])
      [] OTHER -> obj

(* Placeholder texts.                                                      *)
Placeholder(n, key) == <<"$", "{", "step", "_">> \o n \o <<"_", key, "}">>

(* What a step's result can have recorded (lines 620-625).                 *)
RecordedIds == ListVal(<<StrVal(<<"1">>), StrVal(<<"2">>), StrVal(<<"3">>)>>)
RecordedCount == IntVal(3)

KeyIds(i) == PlaceholderKey(i, <<"element_ids">>)
KeyCount(i) == PlaceholderKey(i, <<"count">>)
KeyElements(i) == PlaceholderKey(i, <<"elements">>)

(* The stores the function is tried on: nothing recorded; step 1's ids and *)
(* count; step 1's count alone, as a str.                                  *)
Stores ==
    { <<>>,
      [k \in {KeyIds(1), KeyCount(1)} |-> IF k = KeyIds(1) THEN RecordedIds ELSE RecordedCount],
      [k \in {KeyCount(1)} |-> StrVal(<<"three">>)] }

(* The pieces its strings are made of: a blank, a word, placeholders of    *)
(* step 1 and of step 2, one with a leading zero, and a placeholder cut    *)
(* off before its "}".                                                     *)
Chunks ==
    { <<" ">>, <<"ids:">>,
      Placeholder(<<"1">>, "element_ids"), Placeholder(<<"1">>, "count"),
      Placeholder(<<"0", "1">>, "count"), Placeholder(<<"2">>, "element_ids"),
      <<"$", "{", "step", "_", "1", "_", "x">> }

RECURSIVE Flatten(_)
Flatten(seqs) == IF seqs = <<>> THEN <<>> ELSE seqs[1] \o Flatten(Tail(seqs))

Strings == {Flatten(cs) : cs \in UNION {[1..n -> Chunks] : n \in 0..MaxChunks}}

(* Params that nest: a dict holding a str, an int and a list; the list     *)
(* holding a dict, a str, None and a list of strs.                         *)
NestedParams ==
    DictVal([element_ids |-> StrVal(Placeholder(<<"1">>, "element_ids")),
             limit |-> IntVal(5),
             filters |-> ListVal(<<
                 DictVal([name |-> StrVal(<<"ids:", " ">> \o Placeholder(<<"1">>, "count")),
                          value |-> NoneVal]),
                 StrVal(Placeholder(<<"2">>, "element_ids")),
                 NoneVal,
                 ListVal(<<StrVal(<<" ">> \o Placeholder(<<"1">>, "count")),
                           StrVal(<<"ids:">>)>>)>>)])

(* Objects that are not a str: empty and nested containers, an int, None.  *)
Objects ==
    << NestedParams, NestedParams.v.filters, NestedParams.v.filters.v[1],
       NestedParams.v.filters.v[4], DictVal(<<>>), ListVal(<<>>), IntVal(5), NoneVal >>

(* substitute_placeholders is called on a str or on one of the objects.    *)
SubstInit ==
    /\ \/ sobj \in {StrVal(str) : str \in Strings}
       \/ \E i \in DOMAIN Objects : sobj = Objects[i]
    /\ sstore \in Stores
    /\ spc = "call"
    /\ sout = NoneVal

(* Line 595: the call returns.                                             *)
SubstituteCall ==
    /\ spc = "call"
    /\ sout' = Substitute(sobj, sstore)
    /\ spc' = "done"
    /\ UNCHANGED <<sobj, sstore>>

SubstNext == SubstituteCall /\ UNCHANGED <<vars, pollVars, wfVars, runVars, chatVars, selVars>>

(* substitute_placeholders alone, on every string and store above.         *)
SubstSpecInit == Init /\ PollOff /\ WfOff /\ SubstInit /\ RunsOff /\ ChatOff /\ SelectOff

SubstSpec == SubstSpecInit /\ [][SubstNext]_allVars

(* The grammar of a placeholder, ${step_N_key}: text is the head, a run    *)
(* of digits N, "_", a key holding no "}", and "}".                        *)
IsPlaceholderText(text) ==
    \E a \in 5..Len(text) :
        /\ SubSeq(text, 1, 4) = <<"$", "{", "step", "_">>
        /\ \A j \in 5..a : IsDigit(text[j])
        /\ a + 3 <= Len(text)
        /\ text[a + 1] = "_"
        /\ \A j \in (a + 2)..(Len(text) - 1) : text[j] # "}"
        /\ text[Len(text)] = "}"

(* step_N_key of a placeholder text, N read as a number.                   *)
TextKey(text) ==
    LET a == CHOOSE a \in 5..Len(text) : \A j \in 5..a : IsDigit(text[j]) /\ text[a + 1] = "_"
    IN  <<"step", "_">> \o IntStr(ParseInt(SubSeq(text, 5, a)))
            \o <<"_">> \o SubSeq(text, a + 2, Len(text) - 1)

(* The placeholder texts that start at position p of str (at most one).    *)
OccurrenceEnds(str, p) == {q \in p..Len(str) : IsPlaceholderText(SubSeq(str, p, q))}
OccurrenceEnd(str, p) == CHOOSE q \in OccurrenceEnds(str, p) : TRUE

IsRecordedAt(str, p, store) ==
    /\ OccurrenceEnds(str, p) # {}
    /\ TextKey(SubSeq(str, p, OccurrenceEnd(str, p))) \in DOMAIN store

(* str is, but for blanks around it, one placeholder of a recorded key.    *)
IsWholeRecorded(str, store) ==
    /\ IsPlaceholderText(Strip(str))
    /\ TextKey(Strip(str)) \in DOMAIN store

(* str with every recorded placeholder in it replaced by the string form   *)
(* of its value, and nothing else changed.                                 *)
RECURSIVE EachRecordedReplaced(_, _, _)
EachRecordedReplaced(str, p, store) ==
    IF p > Len(str) THEN <<>>
    ELSE IF IsRecordedAt(str, p, store)
         THEN Str(store[TextKey(SubSeq(str, p, OccurrenceEnd(str, p)))])
                  \o EachRecordedReplaced(str, OccurrenceEnd(str, p) + 1, store)
         ELSE <<str[p]>> \o EachRecordedReplaced(str, p + 1, store)

(* A recorded placeholder of str starts inside an earlier placeholder text. *)
HasCoveredRecorded(str, store) ==
    \E p0, p \in DOMAIN str :
        /\ p0 < p
        /\ OccurrenceEnds(str, p0) # {}
        /\ p <= OccurrenceEnd(str, p0)
        /\ IsRecordedAt(str, p, store)

(* C18: a str that is, after trimming, exactly one placeholder of a        *)
(* recorded key is replaced by the recorded value itself, type and all.    *)
C18_WholeStringTyped ==
    (spc = "done" /\ sobj.t = "str" /\ IsWholeRecorded(sobj.v, sstore))
        => sout = sstore[TextKey(Strip(sobj.v))]

C18_Witness ==
    /\ spc = "done"
    /\ sobj = StrVal(<<" ">> \o Placeholder(<<"1">>, "element_ids"))
    /\ sout = ListVal(<<StrVal(<<"1">>), StrVal(<<"2">>), StrVal(<<"3">>)>>)

MaxSteps == 3

(* Lines 509-539: the names in the tool mapping.                           *)
available_tools ==
    {"get_revit_project_info", "get_elements_by_category", "filter_elements",
     "get_element_properties", "update_element_parameters", "select_elements_by_id",
     "select_stored_elements", "list_stored_elements", "place_view_on_sheet",
     "list_views"}

(* Line 608: the tools called without arguments.                           *)
NoParamTools == {"get_revit_project_info", "list_stored_elements"}

(* The steps plans are made of: a search, a selection of what step 1       *)
(* found, a search whose parameter embeds step 1's count, a selection of   *)
(* step 2's never recorded elements, a tool that is not in the mapping, a  *)
(* step with no "tool" key (step.get("tool") is None), list_views given a  *)
(* parameter it does not take, a tool called without its parameters, and   *)
(* a step whose params is None; and a selection of what step 2 finds, a    *)
(* reference to a later step, to the step itself or to an earlier step     *)
(* according to its place in the plan.  The first step has a description,  *)
(* the others none (step.get("description", "") is "").                    *)
PlanSteps ==
    { [tool |-> "get_elements_by_category", description |-> "find the walls",
       params |-> DictVal([category_name |-> StrVal(<<"Walls">>)])],
      [tool |-> "select_elements_by_id", description |-> "",
       params |-> DictVal([element_ids |-> StrVal(Placeholder(<<"1">>, "element_ids"))])],
      [tool |-> "get_elements_by_category", description |-> "",
       params |-> DictVal([category_name |->
                              StrVal(<<"ids:", " ">> \o Placeholder(<<"1">>, "count"))])],
      [tool |-> "select_elements_by_id", description |-> "",
       params |-> DictVal([element_ids |->
                              StrVal(<<" ">> \o Placeholder(<<"2">>, "elements"))])],
      [tool |-> "no_such_tool", description |-> "",
       params |-> DictVal(<<>>)],
      [tool |-> "None", description |-> "",
       params |-> DictVal(<<>>)],
      [tool |-> "list_views", description |-> "",
       params |-> DictVal([view_name |-> StrVal(<<"Level">>)])],
      [tool |-> "get_revit_project_info", description |-> "",
       params |-> DictVal([element_ids |-> StrVal(Placeholder(<<"1">>, "element_ids"))])],
      [tool |-> "select_elements_by_id", description |-> "",
       params |-> DictVal([element_ids |-> StrVal(Placeholder(<<"2">>, "element_ids"))])],
      [tool |-> "get_elements_by_category", description |-> "", params |-> NoneVal] }

(* What a tool returns (call_revit_listener's dict): a result with ids and *)
(* a count, a result with neither, and the error shape of lines 227-250.   *)
ToolResults ==
    { DictVal([status |-> StrVal(<<"success">>), count |-> RecordedCount,
               element_ids |-> RecordedIds]),
      DictVal([status |-> StrVal(<<"success">>)]),
      DictVal([status |-> StrVal(<<"error">>), message |-> StrVal(<<"no connection">>)]) }

(* Line 613: the call with tool_params as keywords raises TypeError when   *)
(* the tool takes no such keyword: list_views_mcp_tool takes none.         *)
CallRaises(tool, args) == tool = "list_views" /\ DOMAIN args.v # {}

ErrorResult(message) == DictVal([error |-> StrVal(<<message>>)])

(* Lines 620-625: the chained keys of a result, recorded for step i.       *)
ChainedKeys == {"element_ids", "count", "elements"}

(* Mutant: only element_ids is recorded.                                   *)
RecordChain_IdsOnly(store, i, result) ==
    LET new == {"element_ids"} \cap DOMAIN result.v
        keyOf(k) == PlaceholderKey(i, <<k>>)
    IN  [key \in DOMAIN store \cup {keyOf(k) : k \in new} |->
            IF \E k \in new : keyOf(k) = key
            THEN result.v[CHOOSE k \in new : keyOf(k) = key]
            ELSE store[key]]

RecordChain(store, i, result) ==
    LET new == ChainedKeys \cap DOMAIN result.v
        keyOf(k) == PlaceholderKey(i, <<k>>)
    IN  [key \in DOMAIN store \cup {keyOf(k) : k \in new} |->
            IF \E k \in new : keyOf(k) = key
            THEN result.v[CHOOSE k \in new : keyOf(k) = key]
            ELSE store[key]]

(* The call arrives, with a list of steps or with None (a JSON null in the *)
(* arguments chat_api passes at lines 935-937).                            *)
WfInit ==
    /\ \/ /\ plan_type = "list"
          /\ execution_plan \in UNION {[1..n -> PlanSteps] : n \in 0..MaxSteps}
       \/ /\ plan_type = "NoneType"
          /\ execution_plan = <<>>
    /\ wpc = "enter"
    /\ step_no = 0
    /\ step_info = NoStepInfo
    /\ tool_params = NoneVal
    /\ executed_steps = <<>>
    /\ step_results = <<>>
    /\ chain = <<>>
    /\ final_status = "success"
    /\ callLog = <<>>

(* Mutant: workflow_results still holds what an earlier run's step 2       *)
(* recorded.                                                               *)
WfEnter_StaleStore ==
    /\ wpc = "enter"
    /\ wpc' = IF plan_type = "list" THEN "loop" ELSE "raised"
    /\ chain' = RecordChain(chain, 2, DictVal([element_ids |-> RecordedIds]))
    /\ UNCHANGED <<execution_plan, plan_type, step_no, step_info, tool_params,
                   executed_steps, step_results, final_status, callLog>>

(* Lines 497-506: len(execution_plan) is taken for the log line and for    *)
(* workflow_results, before the try of line 541; None has no len(), and    *)
(* the TypeError leaves the function.                                      *)
WfEnter ==
    /\ wpc = "enter"
    /\ wpc' = IF plan_type = "list" THEN "loop" ELSE "raised"
    /\ UNCHANGED <<execution_plan, plan_type, step_no, step_info, tool_params,
                   executed_steps, step_results, chain, final_status, callLog>>

(* Mutant: the substituted params are written back into the step.          *)
WfStepBegin_InPlace ==
    /\ wpc = "loop"
    /\ step_no < Len(execution_plan)
    /\ step_no' = step_no + 1
    /\ step_info' = [step_number |-> step_no + 1, tool |-> execution_plan[step_no + 1].tool,
                     description |-> execution_plan[step_no + 1].description,
                     status |-> "pending", result |-> NoneVal, error |-> <<>>]
    /\ IF execution_plan[step_no + 1].params.t = "dict"
       THEN /\ tool_params' = Substitute(execution_plan[step_no + 1].params, chain)
            /\ execution_plan' = [execution_plan EXCEPT ![step_no + 1].params = tool_params']
            /\ wpc' = "call"
            /\ final_status' = final_status
       ELSE /\ tool_params' = tool_params
            /\ execution_plan' = execution_plan
            /\ wpc' = "done"
            /\ final_status' = "error"
    /\ UNCHANGED <<plan_type, executed_steps, step_results, chain, callLog>>

(* Lines 542-595: the next step's step_info, the copy of its params and    *)
(* the substitution; params that has no copy() raises AttributeError,      *)
(* which lines 653-658 catch.                                              *)
WfStepBegin ==
    /\ wpc = "loop"
    /\ step_no < Len(execution_plan)
    /\ step_no' = step_no + 1
    /\ step_info' = [step_number |-> step_no + 1, tool |-> execution_plan[step_no + 1].tool,
                     description |-> execution_plan[step_no + 1].description,
                     status |-> "pending", result |-> NoneVal, error |-> <<>>]
    /\ IF execution_plan[step_no + 1].params.t = "dict"
       THEN /\ tool_params' = Substitute(execution_plan[step_no + 1].params, chain)
            /\ wpc' = "call"
            /\ final_status' = final_status
       ELSE /\ tool_params' = tool_params
            /\ wpc' = "done"
            /\ final_status' = "error"
    /\ UNCHANGED <<execution_plan, plan_type, executed_steps, step_results, chain, callLog>>

(* Mutant: an unknown tool ends the run.                                   *)
WfUnknownTool_Halts ==
    /\ wpc = "call"
    /\ step_info.tool \notin available_tools
    /\ step_info' = [step_info EXCEPT !.status = "error",
                                      !.error = <<"Unknown tool: ", step_info.tool>>,
                                      !.result = ErrorResult("Tool not available")]
    /\ wpc' = "done"
    /\ final_status' = "failed"
    /\ UNCHANGED <<execution_plan, plan_type, step_no, tool_params, executed_steps,
                   step_results, chain, callLog>>

(* Lines 600-603: the tool is not in the mapping.                          *)
WfUnknownTool ==
    /\ wpc = "call"
    /\ step_info.tool \notin available_tools
    /\ step_info' = [step_info EXCEPT !.status = "error",
                                      !.error = <<"Unknown tool: ", step_info.tool>>,
                                      !.result = ErrorResult("Tool not available")]
    /\ wpc' = "append"
    /\ UNCHANGED <<execution_plan, plan_type, step_no, tool_params, executed_steps, step_results,
                   chain, final_status, callLog>>

(* Mutant: what the tool raises leaves the function.                       *)
WfCallTool_Propagates(result) ==
    /\ wpc = "call"
    /\ step_info.tool \in available_tools
    /\ LET args == IF step_info.tool \in NoParamTools THEN DictVal(<<>>) ELSE tool_params
           raises == CallRaises(step_info.tool, args)
       IN  /\ callLog' = Append(callLog, [step |-> step_no, tool |-> step_info.tool,
                                          args |-> args, appended |-> Len(executed_steps),
                                          store |-> chain, raised |-> raises,
                                          message |-> IF raises THEN "TypeError" ELSE ""])
           /\ IF raises
              THEN /\ step_info' = step_info
                   /\ chain' = chain
                   /\ wpc' = "raised"
              ELSE /\ step_info' = [step_info EXCEPT !.status = "completed",
                                                     !.result = result]
                   /\ chain' = RecordChain(chain, step_no, result)
                   /\ wpc' = "append"
    /\ UNCHANGED <<execution_plan, plan_type, step_no, tool_params, executed_steps,
                   step_results, final_status>>

(* Lines 605-631: the tool is called; what it returns is recorded as       *)
(* 'completed' and its chained keys are stored; what it raises is          *)
(* recorded as 'error'.                                                    *)
WfCallTool(result) ==
    /\ wpc = "call"
    /\ step_info.tool \in available_tools
    /\ LET args == IF step_info.tool \in NoParamTools THEN DictVal(<<>>) ELSE tool_params
           raises == CallRaises(step_info.tool, args)
       IN  /\ callLog' = Append(callLog, [step |-> step_no, tool |-> step_info.tool,
                                          args |-> args, appended |-> Len(executed_steps),
                                          store |-> chain, raised |-> raises,
                                          message |-> IF raises THEN "TypeError" ELSE ""])
           /\ IF raises
              THEN /\ step_info' = [step_info EXCEPT !.status = "error",
                                                     !.error = <<"TypeError">>,
                                                     !.result = ErrorResult("TypeError")]
                   /\ chain' = chain
              ELSE /\ step_info' = [step_info EXCEPT !.status = "completed",
                                                     !.result = result]
                   /\ chain' = RecordChain(chain, step_no, result)
    /\ wpc' = "append"
    /\ UNCHANGED <<execution_plan, plan_type, step_no, tool_params, executed_steps, step_results,
                   final_status>>

(* Mutant: a failed step's result is not kept.                             *)
WfAppend_ResultOnSuccess ==
    /\ wpc = "append"
    /\ executed_steps' = Append(executed_steps, step_info)
    /\ step_results' = IF step_info.status = "completed"
                       THEN Append(step_results, step_info.result)
                       ELSE step_results
    /\ wpc' = "loop"
    /\ UNCHANGED <<execution_plan, plan_type, step_no, step_info, tool_params, chain, final_status,
                   callLog>>

(* Lines 633-634: the step's outcome is appended.                          *)
WfAppend ==
    /\ wpc = "append"
    /\ executed_steps' = Append(executed_steps, step_info)
    /\ step_results' = Append(step_results, step_info.result)
    /\ wpc' = "loop"
    /\ UNCHANGED <<execution_plan, plan_type, step_no, step_info, tool_params, chain, final_status,
                   callLog>>

(* Mutant: no successful step means 'failed'.                              *)
WfAggregate_FailedFirst ==
    /\ wpc = "loop"
    /\ step_no = Len(execution_plan)
    /\ LET successful_steps ==
               Cardinality({k \in DOMAIN executed_steps :
                               executed_steps[k].status = "completed"})
           failed_steps ==
               Cardinality({k \in DOMAIN executed_steps :
                               executed_steps[k].status = "error"})
       IN  final_status' = IF successful_steps = 0 THEN "failed"
                           ELSE IF failed_steps = 0 THEN "success"
                           ELSE "partial"
    /\ wpc' = "done"
    /\ UNCHANGED <<execution_plan, plan_type, step_no, step_info, tool_params, executed_steps,
                   step_results, chain, callLog>>

(* Lines 636-651: the loop is over; the final status.                      *)
WfAggregate ==
    /\ wpc = "loop"
    /\ step_no = Len(execution_plan)
    /\ LET successful_steps ==
               Cardinality({k \in DOMAIN executed_steps :
                               executed_steps[k].status = "completed"})
           failed_steps ==
               Cardinality({k \in DOMAIN executed_steps :
                               executed_steps[k].status = "error"})
       IN  final_status' = IF failed_steps = 0 THEN "success"
                           ELSE IF successful_steps > 0 THEN "partial"
                           ELSE "failed"
    /\ wpc' = "done"
    /\ UNCHANGED <<execution_plan, plan_type, step_no, step_info, tool_params, executed_steps,
                   step_results, chain, callLog>>

WfNext ==
    \/ WfEnter /\ UNCHANGED <<vars, pollVars, substVars, runVars, chatVars, selVars>>
    \/ WfStepBegin /\ UNCHANGED <<vars, pollVars, substVars, runVars, chatVars, selVars>>
    \/ WfUnknownTool /\ UNCHANGED <<vars, pollVars, substVars, runVars, chatVars, selVars>>
    \/ /\ \E result \in ToolResults : WfCallTool(result)
       /\ UNCHANGED <<vars, pollVars, substVars, runVars, chatVars, selVars>>
    \/ WfAppend /\ UNCHANGED <<vars, pollVars, substVars, runVars, chatVars, selVars>>
    \/ WfAggregate /\ UNCHANGED <<vars, pollVars, substVars, runVars, chatVars, selVars>>

(* One run of plan_and_execute_workflow_tool, on every plan above.         *)
WfSpecInit == Init /\ PollOff /\ WfInit /\ SubstOff /\ RunsOff /\ ChatOff /\ SelectOff

WfSpec == WfSpecInit /\ [][WfNext]_allVars

(* The run has returned from line 651: no executor-level error.            *)
WfReturned == wpc = "done" /\ final_status # "error"

(* s is a prefix of t.                                                     *)
IsPrefix(s, t) == Len(s) <= Len(t) /\ SubSeq(t, 1, Len(s)) = s

(* C15: a step's tool is called only when the outcomes of all steps before *)
(* it have been appended; a run that ends without an executor-level error  *)
(* leaves one entry per planned step in executed_steps and step_results,   *)
(* in plan order; entries are never removed or reordered.                  *)
C15_OneOutcomePerStep ==
    /\ [](\A c \in DOMAIN callLog : callLog[c].appended = callLog[c].step - 1)
    /\ [](WfReturned =>
            /\ Len(executed_steps) = Len(execution_plan)
            /\ Len(step_results) = Len(execution_plan)
            /\ \A k \in DOMAIN execution_plan :
                  /\ executed_steps[k].step_number = k
                  /\ executed_steps[k].tool = execution_plan[k].tool
                  /\ step_results[k] = executed_steps[k].result)
    /\ [][IsPrefix(executed_steps, executed_steps')
            /\ IsPrefix(step_results, step_results')]_wfVars

C15_Witness ==
    /\ WfReturned
    /\ Len(executed_steps) = 3
    /\ Len(callLog) = 2
    /\ executed_steps[2].status = "error"
    /\ executed_steps[3].status = "completed"

(* The tool of a step returned the error shape {status: 'error', message}. *)
ReturnedError(result) ==
    /\ result.t = "dict"
    /\ "status" \in DOMAIN result.v
    /\ result.v.status = StrVal(<<"error">>)

(* The steps that failed: the tool was unknown, it raised, or it returned  *)
(* the error shape.                                                        *)
FailedSteps ==
    {k \in DOMAIN executed_steps :
        executed_steps[k].status = "error" \/ ReturnedError(executed_steps[k].result)}

(* C16: after all steps were attempted final_status is 'success' when no   *)
(* step failed, 'partial' when some failed and some succeeded, 'failed'    *)
(* when every step failed; step_results holds each step's result, the      *)
(* error object of a failed one, at the step's position.                   *)
C16_FinalAggregation ==
    WfReturned =>
        /\ Len(executed_steps) = Len(execution_plan)
        /\ FailedSteps = {} => final_status = "success"
        /\ (FailedSteps # {} /\ FailedSteps # DOMAIN executed_steps)
              => final_status = "partial"
        /\ (FailedSteps # {} /\ FailedSteps = DOMAIN executed_steps)
              => final_status = "failed"
        /\ \A k \in DOMAIN executed_steps : step_results[k] = executed_steps[k].result

(* C17: a step whose tool returned {status: 'error', message} is recorded  *)
(* with status 'error' and counts as an error in the final status.         *)
C17_ErrorShapeDetected ==
    /\ \A k \in DOMAIN executed_steps :
          ReturnedError(executed_steps[k].result) => executed_steps[k].status = "error"
    /\ (WfReturned /\ \E k \in DOMAIN executed_steps :
                          ReturnedError(executed_steps[k].result))
          => final_status \in {"partial", "failed"}

(* str holds placeholders, none of them of a key in store.                 *)
AllUnrecorded(str, store) ==
    /\ \E p \in DOMAIN str : OccurrenceEnds(str, p) # {}
    /\ \A p \in DOMAIN str : ~IsRecordedAt(str, p, store)

(* The calls whose step has a parameter with unresolved placeholders only. *)
UnresolvedCalls ==
    {c \in DOMAIN callLog :
        /\ callLog[c].tool \notin NoParamTools
        /\ \E name \in DOMAIN execution_plan[callLog[c].step].params.v :
              LET value == execution_plan[callLog[c].step].params.v[name]
              IN  value.t = "str" /\ AllUnrecorded(value.v, callLog[c].store)}

(* C20: a parameter whose placeholders name keys that were never recorded  *)
(* reaches the tool as the literal text; the step is dispatched, it fails  *)
(* only if the tool raises, and the run ends with no executor-level error. *)
C20_UnresolvedLeftLiteral ==
    /\ \A c \in UnresolvedCalls :
          LET params == execution_plan[callLog[c].step].params.v
          IN  /\ \A name \in DOMAIN params :
                    (params[name].t = "str"
                        /\ AllUnrecorded(params[name].v, callLog[c].store))
                    => callLog[c].args.v[name] = params[name]
              /\ (callLog[c].step \in DOMAIN executed_steps /\ ~callLog[c].raised)
                    => executed_steps[callLog[c].step].status = "completed"
    /\ \A k \in DOMAIN executed_steps :
          executed_steps[k].tool \in available_tools
              => \E c \in DOMAIN callLog : callLog[c].step = k
    /\ (wpc = "done" /\ final_status = "error")
          => execution_plan[step_no].params.t # "dict"

C20_Witness ==
    /\ WfReturned
    /\ final_status = "success"
    /\ \E c \in UnresolvedCalls :
          /\ callLog[c].args =
                 DictVal([element_ids |-> StrVal(<<" ">> \o Placeholder(<<"2">>, "elements"))])
          /\ callLog[c].step = 2
          /\ executed_steps[2].status = "completed"

(* Planned step j has its outcome in executed_steps, or a step in from..j  *)
(* has params that cannot be copied (the executor-level fault of lines     *)
(* 653-658 ended the run there).                                           *)
Attempted(from, j) ==
    \/ j \in DOMAIN executed_steps
    \/ \E f \in from..j : execution_plan[f].params.t # "dict"

(* C21: a step whose tool is not in the mapping (a name that is absent, or *)
(* no name at all) is recorded with status 'error' and the message         *)
(* "Unknown tool: <name>"; no tool is called for it; and once the run has  *)
(* ended, that step and every step after it has its outcome recorded,      *)
(* unless a later step's executor-level fault ended the run.               *)
C21_UnknownToolFailSoft ==
    /\ \A k \in DOMAIN executed_steps :
          execution_plan[k].tool \notin available_tools
              => /\ executed_steps[k].status = "error"
                 /\ executed_steps[k].error = <<"Unknown tool: ", execution_plan[k].tool>>
                 /\ executed_steps[k].result = ErrorResult("Tool not available")
    /\ \A c \in DOMAIN callLog :
          execution_plan[callLog[c].step].tool \in available_tools
    /\ wpc = "done"
          => \A k \in DOMAIN execution_plan :
                (execution_plan[k].tool \notin available_tools
                    /\ execution_plan[k].params.t = "dict"
                    /\ k <= step_no)
                => \A j \in k..Len(execution_plan) : Attempted(k + 1, j)

C21_Witness ==
    /\ wpc = "done"
    /\ Len(execution_plan) = 3
    /\ Len(executed_steps) = 3
    /\ execution_plan[1].tool = "no_such_tool"
    /\ execution_plan[2].tool = "None"
    /\ executed_steps[1].error = <<"Unknown tool: ", "no_such_tool">>
    /\ executed_steps[2].error = <<"Unknown tool: ", "None">>
    /\ executed_steps[3].status = "completed"
    /\ Len(callLog) = 1
    /\ callLog[1].step = 3
    /\ final_status = "partial"

(* C22: a call that raised is recorded for its step with status 'error',   *)
(* the exception's message as the error and as the result's error; the     *)
(* step's outcome is appended and, once the run has ended, every step      *)
(* after it has its outcome recorded, unless a later step's executor-level *)
(* fault ended the run; no exception leaves the function once a tool has   *)
(* been called.                                                            *)
C22_ToolExceptionFailSoft ==
    /\ \A c \in DOMAIN callLog :
          callLog[c].raised
              => LET k == callLog[c].step
                     outcome == IF k \in DOMAIN executed_steps
                                THEN executed_steps[k] ELSE step_info
                 IN  /\ k \in DOMAIN executed_steps \/ (k = step_no /\ wpc = "append")
                     /\ outcome.step_number = k
                     /\ outcome.status = "error"
                     /\ outcome.error = <<callLog[c].message>>
                     /\ outcome.result = ErrorResult(callLog[c].message)
                     /\ wpc = "done"
                           => \A j \in k..Len(execution_plan) : Attempted(k + 1, j)
    /\ wpc = "raised" => callLog = <<>>

C22_Witness ==
    /\ wpc = "done"
    /\ Len(execution_plan) = 2
    /\ Len(executed_steps) = 2
    /\ Len(callLog) = 2
    /\ callLog[1].raised
    /\ callLog[1].tool = "list_views"
    /\ executed_steps[1].status = "error"
    /\ executed_steps[1].error = <<"TypeError">>
    /\ executed_steps[2].status = "completed"
    /\ final_status = "partial"

(* C23: for every recorded outcome k and chained key, step_{k}_{key} is in *)
(* the store with the result's value when the step is 'completed' and its  *)
(* result has the key, and is not in the store otherwise; every later      *)
(* call of the run is made with a store that holds that entry, and its     *)
(* arguments are the step's params substituted from that store.            *)
C23_ResultChaining ==
    /\ \A k \in DOMAIN executed_steps : \A key \in ChainedKeys :
          IF /\ executed_steps[k].status = "completed"
             /\ key \in DOMAIN executed_steps[k].result.v
          THEN /\ PlaceholderKey(k, <<key>>) \in DOMAIN chain
               /\ chain[PlaceholderKey(k, <<key>>)] = executed_steps[k].result.v[key]
               /\ \A c \in DOMAIN callLog :
                     callLog[c].step > k
                         => /\ PlaceholderKey(k, <<key>>) \in DOMAIN callLog[c].store
                            /\ callLog[c].store[PlaceholderKey(k, <<key>>)]
                                   = executed_steps[k].result.v[key]
          ELSE PlaceholderKey(k, <<key>>) \notin DOMAIN chain
    /\ \A c \in DOMAIN callLog :
          callLog[c].tool \notin NoParamTools
              => callLog[c].args = Substitute(execution_plan[callLog[c].step].params,
                                              callLog[c].store)

C23_Witness ==
    /\ wpc = "done"
    /\ Len(executed_steps) = 3
    /\ executed_steps[1].status = "completed"
    /\ executed_steps[1].result.v = [status |-> StrVal(<<"success">>),
                                     count |-> RecordedCount, element_ids |-> RecordedIds]
    /\ executed_steps[2].status = "error"
    /\ DOMAIN chain = {KeyIds(1), KeyCount(1)}
    /\ Len(callLog) = 3
    /\ execution_plan[3].params
           = DictVal([element_ids |-> StrVal(Placeholder(<<"1">>, "element_ids"))])
    /\ callLog[3].step = 3
    /\ callLog[3].args = DictVal([element_ids |-> RecordedIds])

(* A run that ended in the except of lines 653-658 stopped at the step     *)
(* whose params could not be copied: the outcomes of the steps before it   *)
(* are recorded, in plan order, and no tool was called for it or for a     *)
(* later step; a run over a list ends in that except exactly when the plan *)
(* has such a step, and its final_status is one of the four values.        *)
FaultReported ==
    /\ (wpc = "done" /\ final_status = "error")
          => /\ execution_plan[step_no].params.t # "dict"
             /\ Len(executed_steps) = step_no - 1
             /\ Len(step_results) = step_no - 1
             /\ \A k \in DOMAIN executed_steps :
                   /\ executed_steps[k].step_number = k
                   /\ executed_steps[k].tool = execution_plan[k].tool
                   /\ executed_steps[k].status \in {"completed", "error"}
             /\ \A c \in DOMAIN callLog : callLog[c].step < step_no
    /\ wpc = "done"
          => /\ final_status = "error"
                  <=> \E f \in DOMAIN execution_plan : execution_plan[f].params.t # "dict"
             /\ final_status \in {"success", "partial", "failed", "error"}

(* C24: an exception of the executor itself sets final_status to 'error',  *)
(* stops the run with no later tool call and leaves in executed_steps the  *)
(* outcomes recorded before it; and no call ends with an exception in      *)
(* place of a report.                                                      *)
C24_ExecutorFault == FaultReported /\ wpc # "raised"

(***************************************************************************)
(* server.py: two calls of plan_and_execute_workflow_tool side by side,    *)
(* each with the workflow_results it creates at lines 499-506, and the     *)
(* element_storage of lines 85-115 that their tools share.                 *)
(***************************************************************************)
(* Bound: the steps of each of the two plans.                              *)
MaxRunSteps == 2

(* The steps of the two plans: a search, a selection of what step 1 found  *)
(* and a selection of what element_storage holds.                          *)
RunSteps ==
    { [tool |-> "get_elements_by_category",
       params |-> DictVal([category_name |-> StrVal(<<"Walls">>)])],
      [tool |-> "select_elements_by_id",
       params |-> DictVal([element_ids |-> StrVal(Placeholder(<<"1">>, "element_ids"))])],
      [tool |-> "select_stored_elements",
       params |-> DictVal([category_name |-> StrVal(<<"Walls">>)])] }

(* Lines 327-335: select_stored_elements finds nothing stored.             *)
NothingStored ==
    DictVal([status |-> StrVal(<<"error">>),
             message |-> StrVal(<<"No stored elements found">>)])

(* What the tool returns, given the listener's reply: select_stored_-      *)
(* elements answers without the listener when element_storage has no entry *)
(* for the category (lines 304-335).                                       *)
ToolReturn(tool, reply, storage) ==
    IF tool = "select_stored_elements" /\ "walls" \notin DOMAIN storage
    THEN NothingStored
    ELSE reply

(* Lines 266-267 and 91-102: get_elements_by_category stores the ids of a  *)
(* successful reply under the category's key.                              *)
store_elements(tool, reply, storage) ==
    IF /\ tool = "get_elements_by_category"
       /\ reply.v.status = StrVal(<<"success">>)
       /\ "element_ids" \in DOMAIN reply.v
    THEN [k \in DOMAIN storage \cup {"walls"} |->
             IF k = "walls" THEN reply.v.element_ids ELSE storage[k]]
    ELSE storage

(* Both calls arrive, each with its own plan and its own workflow_results. *)
RunsInit ==
    /\ plans \in [Runs -> UNION {[1..n -> RunSteps] : n \in 0..MaxRunSteps}]
    /\ rpc = [r \in Runs |-> "loop"]
    /\ rstep = [r \in Runs |-> 0]
    /\ rparams = [r \in Runs |-> NoneVal]
    /\ workflow_results = [r \in Runs |-> <<>>]
    /\ reports = [r \in Runs |-> <<>>]
    /\ element_storage = <<>>
    /\ runCalls = <<>>

(* Mutant: one workflow_results for all calls.                             *)
RunBegin_SharedStore(r) ==
    /\ rpc[r] = "loop"
    /\ rstep[r] < Len(plans[r])
    /\ rstep' = [rstep EXCEPT ![r] = @ + 1]
    /\ rparams' = [rparams EXCEPT
                      ![r] = Substitute(plans[r][rstep[r] + 1].params,
                                        workflow_results["A"])]
    /\ rpc' = [rpc EXCEPT ![r] = "call"]
    /\ UNCHANGED <<plans, workflow_results, reports, element_storage, runCalls>>

(* Lines 542-595 in run r: the next step's params, substituted from the    *)
(* workflow_results of this call.                                          *)
RunBegin(r) ==
    /\ rpc[r] = "loop"
    /\ rstep[r] < Len(plans[r])
    /\ rstep' = [rstep EXCEPT ![r] = @ + 1]
    /\ rparams' = [rparams EXCEPT
                      ![r] = Substitute(plans[r][rstep[r] + 1].params,
                                        workflow_results[r])]
    /\ rpc' = [rpc EXCEPT ![r] = "call"]
    /\ UNCHANGED <<plans, workflow_results, reports, element_storage, runCalls>>

(* Lines 605-634 in run r: the tool is called, its chained keys go to this *)
(* call's workflow_results and its result to this call's step_results.     *)
RunCall(r, reply) ==
    /\ rpc[r] = "call"
    /\ LET tool == plans[r][rstep[r]].tool
           result == ToolReturn(tool, reply, element_storage)
       IN  /\ element_storage' = store_elements(tool, result, element_storage)
           /\ workflow_results' = [workflow_results EXCEPT
                                      ![r] = RecordChain(@, rstep[r], result)]
           /\ reports' = [reports EXCEPT ![r] = Append(@, result)]
           /\ runCalls' = Append(runCalls, [run |-> r, step |-> rstep[r],
                                            args |-> rparams[r], result |-> result])
    /\ rpc' = [rpc EXCEPT ![r] = "loop"]
    /\ UNCHANGED <<plans, rstep, rparams>>

(* Lines 636-651 in run r: the loop is over.                               *)
RunReturn(r) ==
    /\ rpc[r] = "loop"
    /\ rstep[r] = Len(plans[r])
    /\ rpc' = [rpc EXCEPT ![r] = "done"]
    /\ UNCHANGED <<plans, rstep, rparams, workflow_results, reports, element_storage,
                   runCalls>>

RunsNext ==
    \/ /\ \E r \in Runs : RunBegin(r)
       /\ UNCHANGED <<vars, pollVars, wfVars, substVars, chatVars, selVars>>
    \/ /\ \E r \in Runs, reply \in ToolResults : RunCall(r, reply)
       /\ UNCHANGED <<vars, pollVars, wfVars, substVars, chatVars, selVars>>
    \/ /\ \E r \in Runs : RunReturn(r)
       /\ UNCHANGED <<vars, pollVars, wfVars, substVars, chatVars, selVars>>

(* Two concurrent runs, on every pair of plans above.                      *)
RunsSpecInit == Init /\ PollOff /\ WfOff /\ SubstOff /\ RunsInit /\ ChatOff /\ SelectOff

RunsSpec == RunsSpecInit /\ [][RunsNext]_allVars

(* What run r alone has recorded and returned in the first n tool calls of *)
(* the history.                                                            *)
RECURSIVE OwnStore(_, _)
OwnStore(r, n) ==
    IF n = 0 THEN <<>>
    ELSE IF runCalls[n].run = r
         THEN RecordChain(OwnStore(r, n - 1), runCalls[n].step, runCalls[n].result)
         ELSE OwnStore(r, n - 1)

RECURSIVE OwnResults(_, _)
OwnResults(r, n) ==
    IF n = 0 THEN <<>>
    ELSE IF runCalls[n].run = r
         THEN Append(OwnResults(r, n - 1), runCalls[n].result)
         ELSE OwnResults(r, n - 1)

(* C25: every tool call of a run gets the step's params substituted from   *)
(* what that run's own earlier calls recorded, whatever the other run has  *)
(* recorded before or in between; a run's store and its step_results are   *)
(* those of its own calls.                                                 *)
C25_RunIsolation ==
    /\ \A n \in DOMAIN runCalls :
          runCalls[n].args = Substitute(plans[runCalls[n].run][runCalls[n].step].params,
                                        OwnStore(runCalls[n].run, n - 1))
    /\ \A r \in Runs :
          /\ workflow_results[r] = OwnStore(r, Len(runCalls))
          /\ reports[r] = OwnResults(r, Len(runCalls))

C25_Witness ==
    /\ rpc = [r \in Runs |-> "done"]
    /\ Len(runCalls) = 3
    /\ runCalls[1].run = "A"
    /\ KeyIds(1) \in DOMAIN workflow_results["A"]
    /\ "walls" \in DOMAIN element_storage
    /\ runCalls[2].run = "B"
    /\ KeyIds(1) \notin DOMAIN workflow_results["B"]
    /\ runCalls[3] = [run |-> "B", step |-> 2,
                      args |-> DictVal([element_ids |->
                                  StrVal(Placeholder(<<"1">>, "element_ids"))]),
                      result |-> DictVal([status |-> StrVal(<<"success">>)])]

(***************************************************************************)
(* server.py: chat_api's tool loops, for OpenAI (lines 961-1001),          *)
(* Anthropic (lines 1009-1050) and Google (lines 1080-1107).               *)
(***************************************************************************)
(* Lines 961, 1009, 1081.                                                  *)
max_tool_iterations == 5

(* Bound: the tool calls in one response of the LLM.                       *)
MaxToolCalls == 2

(* The prefixes of selected_model_ui_name that choose a branch (lines 958, *)
(* 1004, 1053).                                                            *)
Providers == {"gpt-", "claude-", "gemini-"}

(* Lines 1001, 1050, 1107.                                                 *)
LimitReply == "Reached tool execution limit without a final response."

(* The branch starts: the Google branch sends the prompt before its loop   *)
(* (line 1080), the others inside it.                                      *)
ChatInit ==
    /\ selected_model \in Providers
    /\ chat_pc = IF selected_model = "gemini-" THEN "create" ELSE "test"
    /\ iteration = 0
    /\ tool_calls = 0
    /\ llm_requests = 0
    /\ tool_rounds = 0
    /\ tools_executed = 0
    /\ model_reply_text = ""

(* Mutant: the loop makes one more iteration.                              *)
ChatLoopTest_OneMore ==
    /\ chat_pc = "test"
    /\ IF iteration <= max_tool_iterations
       THEN /\ iteration' = iteration + 1
            /\ chat_pc' = IF selected_model = "gemini-" THEN "inspect" ELSE "create"
            /\ model_reply_text' = model_reply_text
       ELSE /\ iteration' = iteration
            /\ chat_pc' = "done"
            /\ model_reply_text' = LimitReply
    /\ UNCHANGED <<selected_model, tool_calls, llm_requests, tool_rounds, tools_executed>>

(* Lines 964-965, 1012-1013: while iteration < max_tool_iterations, then   *)
(* iteration += 1; line 1083: for iteration in range(1, max + 1); the else *)
(* clause of either loop (lines 999-1001, 1048-1050, 1105-1107).           *)
ChatLoopTest ==
    /\ chat_pc = "test"
    /\ IF iteration < max_tool_iterations
       THEN /\ iteration' = iteration + 1
            /\ chat_pc' = IF selected_model = "gemini-" THEN "inspect" ELSE "create"
            /\ model_reply_text' = model_reply_text
       ELSE /\ iteration' = iteration
            /\ chat_pc' = "done"
            /\ model_reply_text' = LimitReply
    /\ UNCHANGED <<selected_model, tool_calls, llm_requests, tool_rounds, tools_executed>>

(* Lines 967-974, 1015-1022, 1080 and 1100: the request to the LLM; its    *)
(* response holds n tool calls.                                            *)
ChatCreate(n) ==
    /\ chat_pc = "create"
    /\ tool_calls' = n
    /\ llm_requests' = llm_requests + 1
    /\ chat_pc' = IF selected_model = "gemini-" THEN "test" ELSE "inspect"
    /\ UNCHANGED <<selected_model, iteration, tool_rounds, tools_executed, model_reply_text>>

(* The request raises: the except clauses from line 1112 on end the        *)
(* branch with an error message and no reply text.                         *)
ChatCreateRaises ==
    /\ chat_pc = "create"
    /\ llm_requests' = llm_requests + 1
    /\ chat_pc' = "done"
    /\ UNCHANGED <<selected_model, iteration, tool_calls, tool_rounds, tools_executed,
                   model_reply_text>>

(* Lines 977-997, 1025-1047, 1084-1104: the tool calls of the response are *)
(* executed (the first one only at line 1085) and the loop continues, the  *)
(* Google branch after sending the result (line 1100); a response without  *)
(* tool calls is the reply.                                                *)
ChatInspect ==
    /\ chat_pc = "inspect"
    /\ IF tool_calls > 0
       THEN /\ tools_executed' = tools_executed +
                                    (IF selected_model = "gemini-" THEN 1 ELSE tool_calls)
            /\ tool_rounds' = tool_rounds + 1
            /\ chat_pc' = IF selected_model = "gemini-" THEN "create" ELSE "test"
            /\ model_reply_text' = model_reply_text
       ELSE /\ tools_executed' = tools_executed
            /\ tool_rounds' = tool_rounds
            /\ chat_pc' = "done"
            /\ model_reply_text' = "text"
    /\ UNCHANGED <<selected_model, iteration, tool_calls, llm_requests>>

ChatNext ==
    \/ ChatLoopTest /\ UNCHANGED <<vars, pollVars, wfVars, substVars, runVars, selVars>>
    \/ /\ \E n \in 0..MaxToolCalls : ChatCreate(n)
       /\ UNCHANGED <<vars, pollVars, wfVars, substVars, runVars, selVars>>
    \/ ChatCreateRaises /\ UNCHANGED <<vars, pollVars, wfVars, substVars, runVars, selVars>>
    \/ ChatInspect /\ UNCHANGED <<vars, pollVars, wfVars, substVars, runVars, selVars>>

(* One request to chat_api, for each provider.                             *)
ChatSpecInit == Init /\ PollOff /\ WfOff /\ SubstOff /\ RunsOff /\ ChatInit /\ SelectOff

ChatSpec == ChatSpecInit /\ [][ChatNext]_allVars

(* The thread that serves the request keeps running.                       *)
ChatFairSpec == ChatSpec /\ WF_allVars(ChatNext)

(* The loop is within its limit: at most max_tool_iterations iterations    *)
(* and rounds of tool calls, one request per iteration (and the prompt the *)
(* Google branch sends first); after max_tool_iterations rounds of tool    *)
(* calls the reply is the fixed one, unless the Google branch's last       *)
(* request raised; the fixed reply is given in no other case.              *)
ToolLoopBounded ==
    /\ iteration <= max_tool_iterations
    /\ tool_rounds <= iteration
    /\ llm_requests <= max_tool_iterations + (IF selected_model = "gemini-" THEN 1 ELSE 0)
    /\ tools_executed <= max_tool_iterations * MaxToolCalls
    /\ (chat_pc = "done" /\ tool_rounds = max_tool_iterations)
          => \/ model_reply_text = LimitReply
             \/ selected_model = "gemini-" /\ model_reply_text = ""
    /\ (chat_pc = "done" /\ model_reply_text = LimitReply)
          => tool_rounds = max_tool_iterations /\ iteration = max_tool_iterations

(* C26: for each provider the tool loop makes at most 5 iterations, and    *)
(* when every response asks for a tool call it ends, after the fifth, with *)
(* the fixed reply; the branch always ends.                                *)
C26_BoundedToolLoop == []ToolLoopBounded /\ <>(chat_pc = "done")

C26_Witness ==
    /\ chat_pc = "done"
    /\ selected_model = "gpt-"
    /\ iteration = max_tool_iterations
    /\ llm_requests = max_tool_iterations
    /\ tool_rounds = max_tool_iterations
    /\ tools_executed = max_tool_iterations * MaxToolCalls
    /\ model_reply_text = LimitReply

(***************************************************************************)
(* Properties of the bridge's result store and of Execute's drain.         *)
(***************************************************************************)
(* The ids of the requests that are queued or that Execute is working on.  *)
LiveIds ==
    QueueIds(request_queue)
        \cup (IF hpc \in {"doc", "dispatch", "running"} THEN {cur.id} ELSE {})

C28_SingleExecution ==
    /\ hpc # "idle" <=> lock = Host
    /\ \A i \in DOMAIN execLog :
          execLog[i].outcome = "running"
              => i = Len(execLog) /\ hpc = "running" /\ execLog[i].id = cur.id
    /\ hpc = "running"
          => execLog # <<>> /\ execLog[Len(execLog)].outcome = "running"

(* An operation is running while an event is pending again, a request is  *)
(* queued and a status call waits for the lock.                            *)
C28_Witness ==
    /\ hpc = "running"
    /\ raised
    /\ request_queue # <<>>
    /\ \E t \in Clients : cpc[t] = "s_read"

(* C29: when an Execute call ends, the queue is empty and every request it *)
(* removed has a terminal Result; a queued request always has a signal     *)
(* ahead of it: a pending event, an Execute call that is running, or its   *)
(* submitter's Raise still to come.                                        *)
C29_DrainComplete ==
    /\ [][(hpc # "idle" /\ hpc' = "idle")
             => /\ request_queue' = <<>>
                /\ \A id \in Range(popLog') : IsTerminal(results'[id])]_vars
    /\ [](\A i \in DOMAIN request_queue :
             \/ raised
             \/ hpc # "idle"
             \/ \E t \in Clients :
                   cpc[t] \in {"t_seed", "t_raise"} /\ creq[t].id = request_queue[i].id)

(* C30: a stored Result has the key status alone while 'processing', the   *)
(* keys status and result when 'completed', and the keys status and        *)
(* message when 'failed'.                                                  *)
C30_ResultShape ==
    \A id \in DOMAIN results :
        /\ results[id].status \in {"processing", "completed", "failed"}
        /\ results[id].status = "processing" => DOMAIN results[id] = {"status"}
        /\ results[id].status = "completed" => DOMAIN results[id] = {"status", "result"}
        /\ results[id].status = "failed" => DOMAIN results[id] = {"status", "message"}

C30_Witness ==
    /\ \E id \in DOMAIN results : results[id].status = "completed"
    /\ \E id \in DOMAIN results : results[id].status = "failed"
    /\ hpc = "idle"

(* The step number N of a placeholder text ${step_N_key}.                  *)
TextStep(text) ==
    LET a == CHOOSE a \in 5..Len(text) : \A j \in 5..a : IsDigit(text[j]) /\ text[a + 1] = "_"
    IN  ParseInt(SubSeq(text, 5, a))

(* The step numbers of the placeholders in str.                            *)
StepsNamed(str) ==
    {TextStep(SubSeq(str, p, OccurrenceEnd(str, p))) :
        p \in {q \in DOMAIN str : OccurrenceEnds(str, q) # {}}}

(* C31: the store a step's params are substituted from holds entries of    *)
(* earlier steps only; a str parameter whose placeholders all name the     *)
(* step itself or a later step reaches the tool as the literal text, and a *)
(* str parameter that was changed names an earlier step.                   *)
C31_BackwardOnly ==
    \A c \in DOMAIN callLog :
        LET i == callLog[c].step
            params == execution_plan[i].params.v
        IN  /\ \A key \in DOMAIN callLog[c].store :
                  \E N \in 1..(i - 1), k \in ChainedKeys : key = PlaceholderKey(N, <<k>>)
            /\ callLog[c].tool \notin NoParamTools
                  => \A name \in DOMAIN params :
                        params[name].t = "str"
                            => /\ (\A N \in StepsNamed(params[name].v) : N >= i)
                                     => callLog[c].args.v[name] = params[name]
                               /\ callLog[c].args.v[name] # params[name]
                                     => \E N \in StepsNamed(params[name].v) : N < i

(* The same parameter, ${step_2_element_ids}, in three steps: literal in   *)
(* step 1 and in step 2, which records the ids, and resolved in step 3.    *)
C31_Witness ==
    /\ wpc = "done"
    /\ Len(callLog) = 3
    /\ \A i \in 1..3 :
          /\ callLog[i].step = i
          /\ execution_plan[i].params
                 = DictVal([element_ids |-> StrVal(Placeholder(<<"2">>, "element_ids"))])
    /\ callLog[1].args = execution_plan[1].params
    /\ callLog[2].args = execution_plan[2].params
    /\ callLog[3].args = DictVal([element_ids |-> RecordedIds])

(* C33: no step of the executor changes the caller's execution_plan: the   *)
(* tool, description and params of every step, placeholder text included,  *)
(* stay as they were when the call arrived.                                *)
C33_PlanUnchanged == [][execution_plan' = execution_plan]_wfVars

(* A run has ended in which a tool got substituted arguments while the     *)
(* step still holds the placeholder.                                       *)
C33_Witness ==
    /\ wpc = "done"
    /\ Len(callLog) = 2
    /\ execution_plan[1].description = "find the walls"
    /\ execution_plan[2].params
           = DictVal([element_ids |-> StrVal(Placeholder(<<"1">>, "element_ids"))])
    /\ callLog[2].args = DictVal([element_ids |-> RecordedIds])

(* C38: a run on a plan of zero steps calls no tool and ends with empty    *)
(* executed_steps and step_results and final_status 'success'.             *)
C38_EmptyPlan ==
    (plan_type = "list" /\ execution_plan = <<>>)
        => /\ callLog = <<>>
           /\ executed_steps = <<>>
           /\ step_results = <<>>
           /\ wpc \in {"enter", "loop", "done"}
           /\ final_status = "success"

C38_Witness ==
    /\ plan_type = "list"
    /\ execution_plan = <<>>
    /\ wpc = "done"
    /\ final_status = "success"
    /\ executed_steps = <<>>

(* out is obj with the same containers (a dict with the same keys, a list  *)
(* of the same length in the same order), every str at any depth replaced  *)
(* by what the rules for one string give, and every other value as it was. *)
RECURSIVE ResolvedThroughout(_, _, _)
ResolvedThroughout(obj, out, store) ==
    CASE obj.t = "str" -> out = SubstituteStr(obj.v, store)
      [] obj.t = "dict" -> /\ out.t = "dict"
                           /\ DOMAIN out.v = DOMAIN obj.v
                           /\ \A k \in DOMAIN obj.v :
                                 ResolvedThroughout(obj.v[k], out.v[k], store)
      [] obj.t = "list" -> /\ out.t = "list"
                           /\ Len(out.v) = Len(obj.v)
                           /\ \A i \in DOMAIN obj.v :
                                 ResolvedThroughout(obj.v[i], out.v[i], store)
      [] OTHER -> out = obj

(* C32: substitute_placeholders resolves the strings at every depth of the *)
(* dicts and lists of its argument by the rules for one string, and leaves *)
(* keys, container shapes and non-string scalars unchanged.                *)
C32_SubstitutionEverywhere ==
    spc = "done" => ResolvedThroughout(sobj, sout, sstore)

(* The nested params have been resolved against step 1's ids and count:    *)
(* whole strings at depth 1 and 3 took the value, the embedded one at      *)
(* depth 3 its string form, step 2's placeholder and the scalars stayed.   *)
C32_Witness ==
    /\ spc = "done"
    /\ sobj.t = "dict"
    /\ DOMAIN sobj.v = DOMAIN NestedParams.v
    /\ sobj = NestedParams
    /\ KeyIds(1) \in DOMAIN sstore
    /\ sout = DictVal([element_ids |-> RecordedIds,
                       limit |-> IntVal(5),
                       filters |-> ListVal(<<
                           DictVal([name |-> StrVal(<<"ids:", " ", "3">>),
                                    value |-> NoneVal]),
                           StrVal(Placeholder(<<"2">>, "element_ids")),
                           NoneVal,
                           ListVal(<<RecordedCount, StrVal(<<"ids:">>)>>)>>)])

(* Every status poll so far was answered with an HTTP status other than    *)
(* 200 (404 for an id the bridge does not know, or any other).             *)
OnlyNon200Polls == \A s \in pseen : s[1] = "http" /\ s[2] # HttpOk

(* C37: while every status poll is answered with a non-200 status,         *)
(* wait_for_completion returns none of these answers: such a poll leads    *)
(* back to the loop, each round sleeps the fixed interval before the next  *)
(* poll, and the wait ends, and ends only with the timeout failure, raised *)
(* once the timeout has elapsed.                                           *)
C37_UnknownIdTimesOut ==
    /\ []((ppc = "done" /\ pout.src = "wait" /\ OnlyNon200Polls)
            => /\ pout.kind = "error"
               /\ pout.value = Failure(TimeoutMessage)
               /\ pelapsed >= wait_timeout * HalfSecondsPerSecond)
    /\ [][(ppc = "get" /\ presp'.kind = "http" /\ presp'.code # HttpOk)
            => (ppc' = "loop" /\ pout' = pout)]_pollVars
    /\ [][ppc = "sleep" => (ppc' = "get" /\ pelapsed' = pelapsed + sleep_half_seconds)]_pollVars
    /\ (ppc = "loop" /\ OnlyNon200Polls) ~> (ppc = "done")

C37_Witness ==
    /\ ppc = "done" /\ pout.src = "wait"
    /\ pseen = {<<"http", 404, "not_found">>}
    /\ presp.code = 404
    /\ pout.kind = "error" /\ pout.value = Failure(TimeoutMessage)

(* C35: a Result is 'failed' exactly when the dispatched operation raised; *)
(* an operation that returned, a value reporting an error included, left a *)
(* 'completed' Result whose payload is the returned value, and what        *)
(* wait_for_completion gives back for that status answer (line 161,        *)
(* result.get('result', result)) is that value.                            *)
C35_FailedIffRaised ==
    /\ \A id \in DOMAIN results :
           /\ results[id].status = "failed"
                  <=> \E i \in ExecIndexes(id) : execLog[i].outcome = "raised"
           /\ \A i \in ExecIndexes(id) :
                  execLog[i].outcome = "returned"
                      => results[id] = [status |-> "completed", result |-> execLog[i].value]
    /\ \A t \in Clients :
           (ret[t].call = "status" /\ ret[t].id \in DOMAIN results)
               => \A i \in ExecIndexes(ret[t].id) :
                      (execLog[i].outcome = "returned" /\ IsTerminal(ret[t].value))
                          => Get(ret[t].value, "result", ret[t].value) = execLog[i].value

(* A status call has answered with the 'completed' Result of an operation  *)
(* that returned the value reporting an error.                             *)
C35_Witness ==
    \E t \in Clients :
        /\ ret[t].call = "status"
        /\ ret[t].value = [status |-> "completed", result |-> "error"]
        /\ \E i \in ExecIndexes(ret[t].id) :
               execLog[i].outcome = "returned" /\ execLog[i].value = "error"

(* C36: a request for an operation name dispatch_operation does not know   *)
(* is appended and answered with 'processing' like any other; once the     *)
(* host has drained it its Result is 'failed' with the message of the      *)
(* NotImplementedError, and the requests queued behind it are dispatched   *)
(* in the same Execute call.                                               *)
C36_UnregisteredOperation ==
    /\ \A t \in Clients :
           (ret[t].call = "trigger" /\ ret[t].id # NoId)
               => /\ ret[t].value = [status |-> "processing"]
                  /\ \E i \in DOMAIN enqLog : enqLog[i].id = ret[t].id
    /\ \A i \in DOMAIN enqLog :
           (enqLog[i].operation = OtherOp /\ Drained(enqLog[i].id))
               => /\ results[enqLog[i].id]
                         = [status |-> "failed", message |-> "NotImplementedError"]
                  /\ \A j \in ExecIndexes(enqLog[i].id) :
                         (hpc = "idle" \/ drainNo > execLog[j].drain)
                             => \A b \in execLog[j].behind :
                                    \E k \in ExecIndexes(b) :
                                        k > j /\ execLog[k].drain = execLog[j].drain

(***************************************************************************)
(* server.py: element_storage, store_elements, get_stored_elements and     *)
(* select_stored_elements.  A category name is a sequence of atoms: words, *)
(* the blank, "_" and the prefix "OST_" on their own.  A stored entry is   *)
(* its key, the length of its element_ids and the category it was stored   *)
(* for; stamp is history, the number of the store_elements call that wrote *)
(* it.                                                                     *)
(***************************************************************************)
(* Bound: the store_elements calls of a session.                           *)
MaxStores == 3

MAX_ELEMENTS_FOR_SELECTION == 250

(* str.lower()                                                             *)
LowerAtom(a) ==
    CASE a = "Windows" -> "windows"
      [] a = "Curtain" -> "curtain"
      [] a = "OST_" -> "ost_"
      [] a = "L1" -> "l1"
      [] OTHER -> a
Lower(name) == [i \in DOMAIN name |-> LowerAtom(name[i])]

(* .replace(" ", "_") and .replace("ost_", "")                             *)
ReplaceBlanks(name) == [i \in DOMAIN name |-> IF name[i] = " " THEN "_" ELSE name[i]]
RemoveOst(name) == SelectSeq(name, LAMBDA a : a # "ost_")

(* Line 95: storage_key; line 302: normalized_category.                    *)
StorageKey(category_name) == ReplaceBlanks(Lower(category_name))
NormalizedCategory(category_name) == ReplaceBlanks(RemoveOst(Lower(category_name)))

(* part in key                                                             *)
Contains(key, part) ==
    \E p \in 0..(Len(key) - Len(part)) : SubSeq(key, p + 1, p + Len(part)) = part

(* The categories elements are stored for, and the sizes of their          *)
(* element_ids: a few, the limit, one more than the limit.                 *)
StoredCategories ==
    { <<"Windows", " ", "L1">>, <<"windows", "_", "l2">>,
      <<"Curtain", " ", "windows">>, <<"OST_", "Windows">> }
StoredSizes == {2, MAX_ELEMENTS_FOR_SELECTION, MAX_ELEMENTS_FOR_SELECTION + 1}

(* The categories a selection is asked for: a prefix of stored keys, the   *)
(* built-in category name, a stored key, and one nothing is stored for.    *)
SelectedCategories ==
    { <<"Windows">>, <<"OST_", "Windows">>, <<"windows", "_", "l2">>, <<"doors">> }

(* What the listener answers to /select_elements_focused.                  *)
ListenerReplies == {"success", "error"}

(* Lines 96-101: element_storage[storage_key] = {...}.  A key the dict     *)
(* holds keeps its place; a new key goes last.                             *)
DictAssign(items, entry) ==
    IF \E i \in DOMAIN items : items[i].key = entry.key
    THEN [i \in DOMAIN items |-> IF items[i].key = entry.key THEN entry ELSE items[i]]
    ELSE Append(items, entry)

(* Lines 91-103: store_elements(category_name, element_ids, count).        *)
StoreElementsCall(category_name, total) ==
    /\ store_clock < MaxStores
    /\ store_clock' = store_clock + 1
    /\ session_storage' = DictAssign(session_storage,
                                     [key |-> StorageKey(category_name),
                                      total |-> total,
                                      category |-> category_name,
                                      stamp |-> store_clock + 1])
    /\ UNCHANGED <<sel_result, sel_call, host_sent>>

(* Lines 105-110: get_stored_elements(storage_key).                        *)
get_stored_elements(storage_key) ==
    LET key == ReplaceBlanks(Lower(storage_key))
    IN  IF \E i \in DOMAIN session_storage : session_storage[i].key = key
        THEN session_storage[CHOOSE i \in DOMAIN session_storage :
                                 session_storage[i].key = key]
        ELSE NoEntry

(* Lines 301-326: stored_data, by the exact key, else the last key that    *)
(* starts with the category, else the last key that contains it.           *)
StoredData(category_name) ==
    LET normalized_category == NormalizedCategory(category_name)
        available_keys == [i \in DOMAIN session_storage |-> session_storage[i].key]
        potential_matches ==
            SelectSeq(available_keys, LAMBDA key : IsPrefix(normalized_category, key))
        fuzzy_matches ==
            SelectSeq(available_keys, LAMBDA key : Contains(key, normalized_category))
    IN  IF get_stored_elements(normalized_category) # NoEntry
        THEN get_stored_elements(normalized_category)
        ELSE IF potential_matches # <<>>
             THEN get_stored_elements(potential_matches[Len(potential_matches)])
             ELSE IF fuzzy_matches # <<>>
                  THEN get_stored_elements(fuzzy_matches[Len(fuzzy_matches)])
                  ELSE NoEntry

(* Mutant: the limit is looked at after the listener was called.           *)
SelectStoredElements_LateLimit(category_name, reply) ==
    LET stored_data == StoredData(category_name)
    IN  /\ IF stored_data = NoEntry
           THEN /\ sel_result' = [status |-> "error"]
                /\ sel_call' = [category |-> category_name, used |-> NoEntry, sent |-> NoCall]
                /\ host_sent' = host_sent
           ELSE /\ sel_result' = [status |-> IF stored_data.total > MAX_ELEMENTS_FOR_SELECTION
                                             THEN "limit_exceeded" ELSE reply]
                /\ sel_call' = [category |-> category_name, used |-> stored_data,
                                sent |-> stored_data.total]
                /\ host_sent' = host_sent \cup {stored_data.total}
        /\ UNCHANGED <<session_storage, store_clock>>

(* Lines 297-364: select_stored_elements(category_name); reply is the      *)
(* status of the listener's answer.                                        *)
SelectStoredElements(category_name, reply) ==
    LET stored_data == StoredData(category_name)
    IN  /\ IF stored_data = NoEntry
           THEN /\ sel_result' = [status |-> "error"]
                /\ sel_call' = [category |-> category_name, used |-> NoEntry, sent |-> NoCall]
                /\ host_sent' = host_sent
           ELSE IF stored_data.total > MAX_ELEMENTS_FOR_SELECTION
                THEN /\ sel_result' = [status |-> "limit_exceeded"]
                     /\ sel_call' = [category |-> category_name, used |-> stored_data,
                                     sent |-> NoCall]
                     /\ host_sent' = host_sent
                ELSE /\ sel_result' = [status |-> reply]
                     /\ sel_call' = [category |-> category_name, used |-> stored_data,
                                     sent |-> stored_data.total]
                     /\ host_sent' = host_sent \cup {stored_data.total}
        /\ UNCHANGED <<session_storage, store_clock>>

SelectNext ==
    \/ /\ \E category_name \in StoredCategories, total \in StoredSizes :
               StoreElementsCall(category_name, total)
       /\ UNCHANGED <<vars, pollVars, wfVars, substVars, runVars, chatVars>>
    \/ /\ \E category_name \in SelectedCategories, reply \in ListenerReplies :
               SelectStoredElements(category_name, reply)
       /\ UNCHANGED <<vars, pollVars, wfVars, substVars, runVars, chatVars>>

(* The element store alone; it starts empty (line 87).                     *)
SelectSpecInit == Init /\ PollOff /\ WfOff /\ SubstOff /\ RunsOff /\ ChatOff /\ SelectOff

SelectSpec == SelectSpecInit /\ [][SelectNext]_allVars

(* The stored entries whose key starts with, or contains, the normalized   *)
(* category.                                                               *)
PrefixMatches(category_name) ==
    {i \in DOMAIN session_storage :
        IsPrefix(NormalizedCategory(category_name), session_storage[i].key)}
ContainMatches(category_name) ==
    {i \in DOMAIN session_storage :
        Contains(session_storage[i].key, NormalizedCategory(category_name))}
PartialMatches(category_name) ==
    IF PrefixMatches(category_name) # {} THEN PrefixMatches(category_name)
    ELSE ContainMatches(category_name)

HasExactKey(category_name) ==
    \E i \in DOMAIN session_storage :
        session_storage[i].key = NormalizedCategory(category_name)

(* C34: a select_stored_elements call that finds no exact key uses, among  *)
(* the entries whose key starts with the category (or, when there is none, *)
(* contains it), the one stored most recently.                             *)
C34_MostRecentMatch ==
    [][(session_storage' = session_storage
            /\ sel_call'.used # NoEntry
            /\ ~HasExactKey(sel_call'.category))
        => \E i \in PartialMatches(sel_call'.category) :
               /\ sel_call'.used = session_storage[i]
               /\ \A j \in PartialMatches(sel_call'.category) :
                      session_storage[j].stamp <= session_storage[i].stamp]_selVars

(* What the code does: among the matches, the one whose key was first      *)
(* stored last.                                                            *)
LastKeyMatch ==
    [][(session_storage' = session_storage
            /\ sel_call'.used # NoEntry
            /\ ~HasExactKey(sel_call'.category))
        => \E i \in PartialMatches(sel_call'.category) :
               /\ sel_call'.used = session_storage[i]
               /\ \A j \in PartialMatches(sel_call'.category) : j <= i]_selVars

(* C39: no selection of more than MAX_ELEMENTS_FOR_SELECTION ids is sent   *)
(* to the listener; a call whose stored entry holds more returns           *)
(* 'limit_exceeded' and sends nothing; no call changes the stored entries. *)
C39_SelectionLimit ==
    /\ [](/\ \A n \in host_sent : n <= MAX_ELEMENTS_FOR_SELECTION
          /\ sel_call.sent <= MAX_ELEMENTS_FOR_SELECTION
          /\ sel_call.used.total > MAX_ELEMENTS_FOR_SELECTION
                => (sel_result.status = "limit_exceeded" /\ sel_call.sent = NoCall))
    /\ [][(sel_call' # sel_call \/ sel_result' # sel_result \/ host_sent' # host_sent)
            => session_storage' = session_storage]_selVars

(* A call has returned 'limit_exceeded' for an entry of 251 ids found by   *)
(* its key's prefix, after a selection of 250 ids was sent.                *)
C39_Witness ==
    /\ sel_result.status = "limit_exceeded"
    /\ sel_call.category = <<"Windows">>
    /\ sel_call.used.total = MAX_ELEMENTS_FOR_SELECTION + 1
    /\ sel_call.sent = NoCall
    /\ host_sent = {MAX_ELEMENTS_FOR_SELECTION}
=============================================================================
